---- MODULE Spec2Model ----
(***************************************************************************)
(* Model of the applicant / document services of verus_app_backend:        *)
(* the handlers and services of internal/document and internal/applicant, *)
(* the authoritative store (one MongoDB collection of applicants with     *)
(* embedded documents) and the cache gate reached through                 *)
(* common.CacheWrapper / common.InvalidateCache.                          *)
(*                                                                         *)
(* Every inbound request runs as its own task (a member of Procs).  An    *)
(* action is one atomic access to a shared resource (store, cache, KMS,   *)
(* object store) together with the local computation around it.           *)
(***************************************************************************)
EXTENDS Integers, Sequences, FiniteSets, TLC

\* ------------------------------------------------------------------ bounds

\* Largest clock reading; every time.Now() read is guarded by it.
MaxTime == 6

\* Concurrent request tasks.
Procs == {"p1", "p2", "p3"}

\* uuid.New() draws from these.
ApplicantIds == {"a1", "a2"}
DocIds == {"d1", "d2"}

\* Client identifiers resolved by the auth middleware.
Clients == {"c1", "c2"}

\* The client of the runs that are not about authentication.
SeqClients == {"c1"}

\* ------------------------------------------------------------------ values

CollectionApplicants == "applicants"

\* Collection names key derivation is compared over.
CollectionNames == {CollectionApplicants, "clients"}

DocumentUploaded == "Uploaded"
DocumentVerified == "Verified"
DocumentStatuses == {DocumentUploaded, DocumentVerified}

\* models.DocumentType: the document types the service knows.
DocumentPassport == "passport"
DocumentTypes == {DocumentPassport, "drivers_license"}

\* models.ParseDocumentType: the type for a known name; for any other name an
\* error beside the zero value.
ParseDocumentType(s) ==
  IF s \in DocumentTypes
  THEN [value |-> s, err |-> ""]
  ELSE [value |-> "", err |-> "invalid document type"]

\* What a client may put in the "status" field of an update request.
StatusInputs == DocumentStatuses \cup {"invalid_status", ""}

\* Uploader.UploadFile: the URL of the stored object.
UploadedFileURL == "https://bucket/object"

\* models.Document{}: the zero value returned beside an error.
EmptyDocument ==
  [document_id |-> "", applicant_id |-> "", document_type |-> "",
   status |-> "", file_url |-> "", created_at |-> 0, updated_at |-> 0,
   deleted |-> FALSE, deleted_at |-> "nil", deleted_by |-> "nil", rev |-> 0]

Max(x, y) == IF x >= y THEN x ELSE y

\* ------------------------------------------------------------------ api keys

\* utils.HashAPIKey: equal keys have equal hashes, different keys different ones.
HashAPIKey(apiKey) == <<"hash", apiKey>>

\* The collection client_secrets_table; no route of this service writes to it.
ClientSecrets ==
  {[client_secret_hash |-> HashAPIKey("key1"), revoked |-> FALSE,
    deleted_at |-> "nil", client_id |-> "c1"],
   [client_secret_hash |-> HashAPIKey("key2"), revoked |-> FALSE,
    deleted_at |-> "nil", client_id |-> "c2"],
   [client_secret_hash |-> HashAPIKey("key3"), revoked |-> TRUE,
    deleted_at |-> "nil", client_id |-> "c1"],
   [client_secret_hash |-> HashAPIKey("key4"), revoked |-> FALSE,
    deleted_at |-> "2024-01-01", client_id |-> "c2"]}

\* Values of the X-API-Key header: none, the four keys of the table and one
\* the table does not hold.
ApiKeys == {"", "key1", "key2", "key3", "key4", "key5"}

\* The same query without the "revoked": false entry of the filter.
FindSecretIgnoreRevoked(hashedKey) ==
  {s \in ClientSecrets :
     s.client_secret_hash = hashedKey /\ s.deleted_at = "nil"}

\* collection.FindOne({"client_secret_hash": hashedKey, "revoked": false,
\* "deleted_at": nil}): the secrets the filter matches.
FindSecret(hashedKey) ==
  {s \in ClientSecrets :
     /\ s.client_secret_hash = hashedKey
     /\ s.revoked = FALSE
     /\ s.deleted_at = "nil"}

\* ------------------------------------------------------------------ envelope

\* Dates of birth and addresses a POST /applicants body may carry.
DobValues == {"1990-01-01", "1985-05-05"}
AddressValues == {"line1"}

\* Data keys the key provider can issue.
DataKeys == {"k1", "k2"}

\* A sensitive value as the caller sent it.
Raw(v) == <<"raw", v>>

\* KMSUploader.GenerateDataKey: a data key in the clear and the same key
\* encrypted under the provider's master key.
GenerateDataKey(k) ==
  [plaintextKey |-> <<"plain", k>>, encryptedKey |-> <<"wrapped", k>>]

\* KMSUploader.DecryptData: only the provider turns an encrypted data key back
\* into the key.
DecryptData(encrypted) ==
  IF Len(encrypted) = 2 /\ encrypted[1] = "wrapped"
  THEN <<"plain", encrypted[2]>>
  ELSE <<"error", "KeyProviderError">>

\* utils.EncryptField: the value sealed under the data key.
EncryptField(v, plaintextKey) == <<"enc", v, plaintextKey[2]>>

\* utils.EncryptAddress: the address sealed under the data key.
EncryptAddress(address, plaintextKey) == <<"enc", address, plaintextKey[2]>>

\* The inverse of EncryptField: the value for the key it was sealed under, an
\* error for any other key or any other input.
DecryptField(field, plaintextKey) ==
  IF /\ Len(field) = 3
     /\ field[1] = "enc"
     /\ Len(plaintextKey) = 2
     /\ plaintextKey[1] = "plain"
     /\ field[3] = plaintextKey[2]
  THEN Raw(field[2])
  ELSE <<"error", "DecryptionError">>

\* models.EncryptedData{}: the zero value.
NoEncryptedData == [dob |-> <<>>, address |-> <<>>, encrypted_key |-> <<>>]

\* The same literal with the data key itself in the place of the encrypted key.
EncryptedDataPlainKey(encryptedDOB, encryptedAddress, plaintextKey, encryptedKey) ==
  [dob |-> encryptedDOB, address |-> encryptedAddress,
   encrypted_key |-> plaintextKey]

\* The same literal with the address sealed under a key of its own.
EncryptedDataOtherKey(encryptedDOB, encryptedAddress, plaintextKey, encryptedKey) ==
  [dob |-> encryptedDOB,
   address |-> <<"enc", encryptedAddress[2],
                 CHOOSE k \in DataKeys : k # encryptedAddress[3]>>,
   encrypted_key |-> encryptedKey]

\* models.EncryptedData{DOB: encryptedDOB, Address: encryptedAddress,
\* EncryptedKey: encryptedKey}: the plaintext key is not part of it.
EncryptedData(encryptedDOB, encryptedAddress, plaintextKey, encryptedKey) ==
  [dob |-> encryptedDOB, address |-> encryptedAddress,
   encrypted_key |-> encryptedKey]

\* The sensitive material an applicant record carries.
ApplicantAtoms(rec) ==
  {rec.encrypted_data.dob, rec.encrypted_data.address,
   rec.encrypted_data.encrypted_key} \ {<<>>}

\* ------------------------------------------------------------------ cache keys

\* Lexicographic rank of the filter keys used by the two services.
KeyRank(k) ==
  CASE k = "applicant_id" -> 1
    [] k = "client_id" -> 2
    [] k = "deleted" -> 3
    [] k = "documents.document_id" -> 4

\* All orders in which the three entries of a filter map may be visited.
Perms3 ==
  {<<1, 2, 3>>, <<1, 3, 2>>, <<2, 1, 3>>, <<2, 3, 1>>, <<3, 1, 2>>, <<3, 2, 1>>}

SourceOrder == <<1, 2, 3>>

\* The visiting orders requests are run with.
RequestOrders == {SourceOrder, <<3, 1, 2>>}

RECURSIVE InsertSorted(_, _)
InsertSorted(pair, sorted) ==
  IF sorted = <<>> THEN <<pair>>
  ELSE IF KeyRank(pair[1]) <= KeyRank(Head(sorted)[1])
       THEN <<pair>> \o sorted
       ELSE <<Head(sorted)>> \o InsertSorted(pair, Tail(sorted))

RECURSIVE Canonical(_)
Canonical(entries) ==
  IF entries = <<>> THEN <<>>
  ELSE InsertSorted(Head(entries), Canonical(Tail(entries)))

\* common.GenerateCacheKey: a digest of the collection name and the canonical
\* (key-sorted) serialization of the filter; the digest is taken as injective.
GenerateCacheKey(collectionName, entries) ==
  <<collectionName, Canonical(entries)>>

DocFilterEntries(applicantID, docID) ==
  <<<<"applicant_id", applicantID>>, <<"deleted", "false">>,
    <<"documents.document_id", docID>>>>

ApplicantFilterEntries(applicantID, clientID) ==
  <<<<"applicant_id", applicantID>>, <<"client_id", clientID>>,
    <<"deleted", "false">>>>

Permuted(entries, ord) == [i \in 1..Len(entries) |-> entries[ord[i]]]

\* document services' GenerateFilterAndCacheKey; ord is the order in which the
\* entries of the bson.M map are visited when it is serialized.
DocGenerateFilterAndCacheKey(applicantID, docID, collectionName, ord) ==
  GenerateCacheKey(collectionName,
                   Permuted(DocFilterEntries(applicantID, docID), ord))

\* applicant services' GenerateFilterAndCacheKey.
ApplicantGenerateFilterAndCacheKey(applicantID, clientID, collectionName, ord) ==
  GenerateCacheKey(collectionName,
                   Permuted(ApplicantFilterEntries(applicantID, clientID), ord))

DocKeys ==
  {DocGenerateFilterAndCacheKey(a, d, CollectionApplicants, SourceOrder) :
     a \in ApplicantIds, d \in DocIds}

ApplicantKeys ==
  {ApplicantGenerateFilterAndCacheKey(a, c, CollectionApplicants, SourceOrder) :
     a \in ApplicantIds, c \in Clients}

Keys == DocKeys \cup ApplicantKeys

NoKey == <<"", <<>>>>

\* ------------------------------------------------------------------ state

VARIABLES
  store,    \* applicants collection: applicant_id -> applicant record
  cache,    \* cache gate: cache key -> [st, val, leader]
  now,      \* last reading handed out by time.Now()
  req,      \* per request task: position and locals of the running handler
  obs,      \* per request task: what the request did so far (observation only)
  fin,      \* <<applicant_id, document_id>> -> newest document revision written
            \* by a write that has returned success (observation only)
  auth,     \* per request task: the X-API-Key header and what the middleware
            \* made of it
  mu        \* the package's sync.Mutex: the task that locked it, or ""

vars == <<store, cache, now, req, obs, fin, auth, mu>>

\* A request the middleware has not seen.
NoAuth == [key |-> "", st |-> "none", client_id |-> ""]

\* An id no applicant was created with.
NoApplicant ==
  [present |-> FALSE, applicant_id |-> "", client_id |-> "", first_name |-> "",
   deleted |-> FALSE, deleted_at |-> "nil", deleted_by |-> "nil",
   created_at |-> 0, updated_at |-> 0,
   encrypted_data |-> NoEncryptedData, documents |-> <<>>]

AbsentEntry == [st |-> "Absent", val |-> <<>>, leader |-> ""]

IdleReq ==
  [pc |-> "idle", op |-> "", a |-> "", d |-> "", client |-> "", status |-> "",
   statusIn |-> "",
   upd |-> {}, key |-> NoKey, ts |-> 0, err |-> "", res |-> EmptyDocument,
   resA |-> NoApplicant, wait |-> "", val |-> <<>>, doc |-> EmptyDocument,
   applicant |-> NoApplicant, resp |-> <<>>,
   dob |-> "", address |-> "", log |-> {}, body |-> <<>>, list |-> {}]

\* No multipart form: the request is not an upload.
NoForm ==
  [parses |-> FALSE, file |-> FALSE, mimeType |-> "", applicant_id |-> "",
   document_type |-> "", country |-> ""]

IdleObs ==
  [need |-> 0, pre |-> 0, clean |-> TRUE, wrote |-> FALSE, dropped |-> FALSE,
   storeFailed |-> FALSE, keyErr |-> FALSE, queries |-> 0, hit |-> FALSE,
   joined |-> FALSE, updates |-> 0, kms |-> 0, kmsFailed |-> FALSE,
   inserts |-> 0, wdoc |-> "", wrev |-> 0, ord |-> SourceOrder,
   entry |-> "", entryVal |-> <<>>, acked |-> FALSE,
   uploads |-> 0, form |-> NoForm]

DocIdsPlus == DocIds \cup {""}

Init ==
  /\ store = [a \in ApplicantIds |-> NoApplicant]
  /\ cache = [k \in Keys |-> AbsentEntry]
  /\ now = 0
  /\ req = [p \in Procs |-> IdleReq]
  /\ obs = [p \in Procs |-> IdleObs]
  /\ fin = [ad \in ApplicantIds \X DocIdsPlus |-> 0]
  /\ auth = [p \in Procs |-> NoAuth]
  /\ mu = ""

\* ------------------------------------------------------------------ store

HasDoc(docs, docID) == \E i \in 1..Len(docs) : docs[i].document_id = docID

FirstIndex(docs, docID) ==
  CHOOSE i \in 1..Len(docs) :
    /\ docs[i].document_id = docID
    /\ \A j \in 1..(i - 1) : docs[j].document_id # docID

\* filter {"applicant_id": applicantID, "deleted": false,
\*         "documents.document_id": docID} against the collection.
DocFilterMatches(st, applicantID, docID) ==
  /\ applicantID \in ApplicantIds
  /\ st[applicantID].present
  /\ ~st[applicantID].deleted
  /\ HasDoc(st[applicantID].documents, docID)

\* filter {"applicant_id": applicantID, "client_id": clientID, "deleted": false}.
ApplicantFilterMatches(st, applicantID, clientID) ==
  /\ applicantID \in ApplicantIds
  /\ st[applicantID].present
  /\ ~st[applicantID].deleted
  /\ st[applicantID].client_id = clientID

\* filter {"applicant_id": applicantID, "deleted": false} used by CreateDocument.
PushFilterMatches(st, applicantID) ==
  /\ applicantID \in ApplicantIds
  /\ st[applicantID].present
  /\ ~st[applicantID].deleted

\* projection {"documents": {"$elemMatch": {"document_id": docID}}}.
ElemMatch(rec, docID) ==
  IF HasDoc(rec.documents, docID)
  THEN <<rec.documents[FirstIndex(rec.documents, docID)]>>
  ELSE <<>>

\* The same update without the documents.$.updated_at entry.
UpdateDocumentSetNoTime(rec, docID, status, ts) ==
  LET i == FirstIndex(rec.documents, docID)
      old == rec.documents[i]
  IN [rec EXCEPT !.documents[i] =
        [old EXCEPT !.status = status,
                    !.rev = IF old.status = status THEN old.rev ELSE old.rev + 1]]

\* The same update applied to every element of the array.
UpdateDocumentSetEvery(rec, docID, status, ts) ==
  [rec EXCEPT !.documents =
     [i \in 1..Len(rec.documents) |->
        [rec.documents[i] EXCEPT !.status = status, !.updated_at = ts,
                                 !.rev = rec.documents[i].rev + 1]]]

\* update {"$set": {"documents.$.status": status, "documents.$.updated_at": ts}}
\* applied to the first array element the filter matched.
UpdateDocumentSet(rec, docID, status, ts) ==
  LET i == FirstIndex(rec.documents, docID)
      old == rec.documents[i]
  IN [rec EXCEPT !.documents[i] =
        [old EXCEPT !.status = status, !.updated_at = ts, !.rev = old.rev + 1]]

UpdateValue(updates, path) == (CHOOSE pv \in updates : pv[1] = path)[2]
UpdateHas(updates, path) == \E pv \in updates : pv[1] = path

\* "$set" of "documents.0.status": the first array element, created when the
\* array is empty.
SetFirstDocStatus(docs, status) ==
  IF docs = <<>>
  THEN <<[EmptyDocument EXCEPT !.status = status, !.rev = 1]>>
  ELSE [docs EXCEPT ![1] =
          [docs[1] EXCEPT !.status = status,
             !.rev = IF docs[1].status = status THEN docs[1].rev
                     ELSE docs[1].rev + 1]]

\* update {"$set": updateDoc}: the caller's fields, then updated_at = time.Now().
UpdateApplicantSet(rec, updates, ts) ==
  LET r1 == IF UpdateHas(updates, "first_name")
            THEN [rec EXCEPT !.first_name = UpdateValue(updates, "first_name")]
            ELSE rec
      r2 == IF UpdateHas(updates, "documents.0.status")
            THEN [r1 EXCEPT !.documents =
                    SetFirstDocStatus(r1.documents,
                                      UpdateValue(updates, "documents.0.status"))]
            ELSE r1
      r3 == IF UpdateHas(updates, "documents")
            THEN [r2 EXCEPT !.documents =
                    IF UpdateValue(updates, "documents") = "[]" THEN <<>>
                    ELSE r2.documents]
            ELSE r2
      r4 == IF UpdateHas(updates, "encrypted_data.dob")
            THEN [r3 EXCEPT !.encrypted_data.dob =
                    Raw(UpdateValue(updates, "encrypted_data.dob"))]
            ELSE r3
      r5 == IF UpdateHas(updates, "deleted")
            THEN [r4 EXCEPT !.deleted = (UpdateValue(updates, "deleted") = "true")]
            ELSE r4
  IN [r5 EXCEPT !.updated_at = ts]

\* update {"$push": {"documents": document}}.
PushDocument(rec, document) ==
  [rec EXCEPT !.documents = Append(rec.documents, document)]

\* Bodies of PUT /applicants/:id the model enumerates.
UpdateMaps ==
  {{<<"first_name", "n2">>},
   {<<"documents.0.status", DocumentVerified>>},
   {<<"updated_at", "0">>}}

\* Bodies of PUT /applicants/:id that name a whole sub-document or an
\* encrypted field: the handler binds any JSON object and the service copies
\* every entry of it into the "$set" document.
OverwriteMaps ==
  {{<<"documents", "[]">>},
   {<<"encrypted_data.dob", "1990-01-01">>}}

\* A body of PUT /applicants/:id that names the deletion flag.
SoftDeleteMaps == {{<<"deleted", "true">>}}

\* ------------------------------------------------------------------ helpers

\* time.Now(): every reading is later than the one before.
TimeNow == now + 1

Respond(r, codes) == [r EXCEPT !.resp = r.resp \o codes]

\* The body of one c.JSON call: its message, error and id entries and the
\* sensitive material of the records it carries.
Body(code, message, error, id, atoms) ==
  [code |-> code, message |-> message, error |-> error, id |-> id,
   atoms |-> atoms]

\* c.JSON(code, body).
RespondJSON(r, b) ==
  [r EXCEPT !.resp = Append(r.resp, b.code), !.body = Append(r.body, b)]

\* A log call whose arguments carry the given sensitive material.
Logged(r, atoms) == [r EXCEPT !.log = r.log \cup atoms]

\* A store write to applicant a by task p has been acknowledged: every other
\* task that wrote to a earlier in its own request has been overtaken.
Overtaken(p, a, o) ==
  [q \in Procs |->
     IF q = p THEN o
     ELSE IF req[q].a = a /\ obs[q].wrote
          THEN [obs[q] EXCEPT !.clean = FALSE]
          ELSE obs[q]]

CurrentDoc(a, d) ==
  IF DocFilterMatches(store, a, d) THEN ElemMatch(store[a], d)[1]
  ELSE EmptyDocument

\* ------------------------------------------------------------------ cache gate

\* common.CacheWrapper, entry: a Valid key answers from the cache, an Absent key
\* makes the caller the populating task, a Populating key makes it wait for the
\* populating task's result.
CacheWrapperLookup(p, r, o, k) ==
  LET e == cache[k] IN
  CASE e.st = "Valid" ->
         /\ req' = [req EXCEPT ![p] = [r EXCEPT !.pc = "cw_ret", !.val = e.val]]
         /\ obs' = [obs EXCEPT ![p] = [o EXCEPT !.hit = TRUE]]
         /\ cache' = cache
    [] e.st = "Absent" ->
         /\ req' = [req EXCEPT ![p] = [r EXCEPT !.pc = "cw_query"]]
         /\ obs' = [obs EXCEPT ![p] = o]
         /\ cache' = [cache EXCEPT ![k] =
                        [st |-> "Populating", val |-> <<>>, leader |-> p]]
    [] e.st = "Populating" ->
         /\ req' = [req EXCEPT ![p] =
                      [r EXCEPT !.pc = "cw_wait", !.wait = e.leader]]
         /\ obs' = [obs EXCEPT ![p] = [o EXCEPT !.joined = TRUE]]
         /\ cache' = cache

\* The tasks waiting for the population run by p on key k.
Waiters(p, k) ==
  {q \in Procs : req[q].pc = "cw_wait" /\ req[q].wait = p /\ req[q].key = k}

\* The population run by p ends with result val or error e: p and every task
\* waiting for it receive the same outcome.
Deliver(p, k, val, e) ==
  [q \in Procs |->
     IF q = p \/ q \in Waiters(p, k)
     THEN [req[q] EXCEPT !.pc = "cw_ret", !.val = val, !.err = e, !.wait = ""]
     ELSE req[q]]

\* The same query, but a cancelled populating task returns at once: the key
\* stays Populating and the tasks waiting for it are not told.
CacheWrapperQueryAbandon(p) ==
  /\ req[p].pc = "cw_query"
  /\ LET k == req[p].key
         a == req[p].a
         d == req[p].d
     IN /\ obs' = [obs EXCEPT ![p].queries = @ + 1]
        /\ \/ /\ DocFilterMatches(store, a, d)
              /\ req' = [req EXCEPT ![p].pc = "cw_fill",
                                    ![p].val = ElemMatch(store[a], d)]
              /\ cache' = cache
           \/ /\ \E e \in {"StoreError", "Cancelled", "NotFound"} :
                   /\ (e = "NotFound") => ~DocFilterMatches(store, a, d)
                   /\ req' = [req EXCEPT ![p].pc = "cw_ret", ![p].err = e]
                   /\ cache' = IF cache[k].st = "Populating" /\ cache[k].leader = p
                                  /\ e # "Cancelled"
                               THEN [cache EXCEPT ![k] = AbsentEntry]
                               ELSE cache
  /\ UNCHANGED <<store, now, fin, auth, mu>>

\* common.CacheWrapper, the populating task's query of the authoritative store
\* (FindOne with the filter and projection).  A failed query, a query matching
\* nothing and a cancelled request leave the key Absent.
CacheWrapperQuery(p) ==
  /\ req[p].pc = "cw_query"
  /\ LET k == req[p].key
         a == req[p].a
         d == req[p].d
     IN /\ obs' = [obs EXCEPT ![p].queries = @ + 1]
        /\ \/ /\ DocFilterMatches(store, a, d)
              /\ req' = [req EXCEPT ![p].pc = "cw_fill",
                                    ![p].val = ElemMatch(store[a], d)]
              /\ cache' = cache
           \/ /\ \E e \in {"StoreError", "Cancelled", "NotFound"} :
                   /\ (e = "NotFound") => ~DocFilterMatches(store, a, d)
                   /\ req' = Deliver(p, k, <<>>, e)
              /\ cache' = IF cache[k].st = "Populating" /\ cache[k].leader = p
                          THEN [cache EXCEPT ![k] = AbsentEntry]
                          ELSE cache
  /\ UNCHANGED <<store, now, fin, auth, mu>>

\* common.CacheWrapper, the populating task's fill: the key becomes Valid with
\* the queried projection unless an invalidation dropped the key meanwhile.
CacheWrapperFill(p) ==
  /\ req[p].pc = "cw_fill"
  /\ LET k == req[p].key IN
       /\ cache' = IF cache[k].st = "Populating" /\ cache[k].leader = p
                   THEN [cache EXCEPT ![k] =
                           [st |-> "Valid", val |-> req[p].val, leader |-> ""]]
                   ELSE cache
       /\ req' = Deliver(p, k, req[p].val, "")
  /\ UNCHANGED <<store, now, obs, fin, auth, mu>>

\* common.InvalidateCache, first half: UpdateOne(filter, update) on the
\* authoritative store.  An update matching nothing is no error.
InvalidateCacheWrite(p) ==
  /\ req[p].pc = "inv_write"
  /\ LET a == req[p].a
         d == req[p].d
     IN \/ /\ req[p].op = "UpdateDocument"
           /\ IF DocFilterMatches(store, a, d)
              THEN LET rec == UpdateDocumentSet(store[a], d, req[p].status, req[p].ts)
                   IN /\ store' = [store EXCEPT ![a] = rec]
                      /\ obs' = Overtaken(p, a,
                                  [obs[p] EXCEPT !.wrote = TRUE, !.updates = @ + 1,
                                     !.acked = TRUE,
                                     !.wdoc = d, !.wrev = ElemMatch(rec, d)[1].rev])
              ELSE /\ store' = store
                   /\ obs' = [obs EXCEPT ![p].updates = @ + 1,
                                         ![p].acked = TRUE]
           /\ req' = [req EXCEPT ![p].pc = "inv_drop"]
        \/ /\ req[p].op = "UpdateApplicant"
           /\ IF ApplicantFilterMatches(store, a, req[p].client)
              THEN LET rec == UpdateApplicantSet(store[a], req[p].upd, req[p].ts)
                   IN /\ store' = [store EXCEPT ![a] = rec]
                      /\ obs' = Overtaken(p, a,
                                  [obs[p] EXCEPT !.wrote = TRUE, !.updates = @ + 1,
                                     !.acked = TRUE,
                                     !.wdoc = IF /\ rec.documents # store[a].documents
                                                 /\ rec.documents # <<>>
                                              THEN rec.documents[1].document_id
                                              ELSE "",
                                     !.wrev = IF /\ rec.documents # store[a].documents
                                                 /\ rec.documents # <<>>
                                              THEN rec.documents[1].rev ELSE 0])
              ELSE /\ store' = store
                   /\ obs' = [obs EXCEPT ![p].updates = @ + 1,
                                         ![p].acked = TRUE]
           /\ req' = [req EXCEPT ![p].pc = "inv_drop"]
        \/ /\ store' = store
           /\ obs' = [obs EXCEPT ![p].storeFailed = TRUE, ![p].updates = @ + 1]
           /\ req' = [req EXCEPT ![p].pc = "inv_ret", ![p].err = "StoreError"]
  /\ UNCHANGED <<cache, now, fin, auth, mu>>

\* common.InvalidateCache, second half, reached only after the store
\* acknowledged the update: the key is dropped (Invalidating, then Absent).
InvalidateCacheDrop(p) ==
  /\ req[p].pc = "inv_drop"
  /\ cache' = [cache EXCEPT ![req[p].key] = AbsentEntry]
  /\ req' = [req EXCEPT ![p].pc = "inv_ret"]
  /\ obs' = [obs EXCEPT ![p].dropped = TRUE]
  /\ UNCHANGED <<store, now, fin, auth, mu>>

\* ------------------------------------------------------------------ documents

\* models.ParseDocumentStatus: the name of a member of the enumeration, or an
\* error.
ParseDocumentStatus(s) ==
  IF s \in DocumentStatuses THEN [ok |-> TRUE, status |-> s]
  ELSE [ok |-> FALSE, status |-> ""]

\* DocumentServiceImpl.GetDocument: the key CacheWrapper is called with.
GetDocumentKey(applicantID, docID, ord) ==
  DocGenerateFilterAndCacheKey(applicantID, docID, CollectionApplicants, ord)

\* The applicant services' function of the same name, called by mistake.
UpdateDocumentKeyOfApplicant(applicantID, docID, ord) ==
  ApplicantGenerateFilterAndCacheKey(applicantID, docID, CollectionApplicants, ord)

\* DocumentServiceImpl.UpdateDocument: the key InvalidateCache is called with.
UpdateDocumentKey(applicantID, docID, ord) ==
  DocGenerateFilterAndCacheKey(applicantID, docID, CollectionApplicants, ord)

\* ApplicantServiceImpl.UpdateApplicant: the key InvalidateCache is called with.
UpdateApplicantKey(applicantID, clientID, ord) ==
  ApplicantGenerateFilterAndCacheKey(applicantID, clientID, CollectionApplicants,
                                     ord)

\* A request enters GetDocument / UpdateDocument with these observations: the
\* newest completed write, the document as stored, and the cache entry.
StartObs(a, d, ord) ==
  LET k == DocGenerateFilterAndCacheKey(a, d, CollectionApplicants, SourceOrder)
  IN [IdleObs EXCEPT !.need = fin[<<a, d>>],
                     !.pre = CurrentDoc(a, d).updated_at,
                     !.entry = cache[k].st, !.entryVal = cache[k].val,
                     !.ord = ord]

\* The same request querying the store itself, without asking the cache first.
GetDocumentDirect(p, a, d, keyFails, ord) ==
  /\ req[p].pc = "idle"
  /\ ~keyFails
  /\ req' = [req EXCEPT ![p] =
               [IdleReq EXCEPT !.pc = "cw_query", !.op = "GetDocument", !.a = a,
                  !.d = d, !.key = GetDocumentKey(a, d, ord)]]
  /\ obs' = [obs EXCEPT ![p] = StartObs(a, d, ord)]
  /\ UNCHANGED <<store, cache, now, fin, auth, mu>>

\* controllers.GetDocument, then DocumentServiceImpl.GetDocument up to its call
\* of common.CacheWrapper.  A key that cannot be derived ends the request with
\* an error (500 written by the service, 404 by the handler).
GetDocument(p, a, d, keyFails, ord) ==
  /\ req[p].pc = "idle"
  /\ LET r == [IdleReq EXCEPT !.op = "GetDocument", !.a = a, !.d = d]
         o == StartObs(a, d, ord)
     IN IF keyFails
        THEN /\ req' = [req EXCEPT ![p] =
                          Respond([r EXCEPT !.pc = "done",
                                            !.err = "KeyDerivationError"],
                                  <<500, 404>>)]
             /\ obs' = [obs EXCEPT ![p] = [o EXCEPT !.keyErr = TRUE]]
             /\ cache' = cache
        ELSE LET k == GetDocumentKey(a, d, ord)
             IN CacheWrapperLookup(p, [r EXCEPT !.key = k], o, k)
  /\ UNCHANGED <<store, now, fin, auth, mu>>

\* The same return with the index off by one: the second projected document.
GetDocumentReturnSecond(p) ==
  /\ req[p].pc = "cw_ret"
  /\ req[p].op = "GetDocument"
  /\ req' = [req EXCEPT ![p] =
               IF req[p].err # ""
               THEN Respond([req[p] EXCEPT !.pc = "done"], <<404>>)
               ELSE Respond([req[p] EXCEPT !.pc = "done",
                               !.res = IF Len(req[p].val) > 1 THEN req[p].val[2]
                                       ELSE EmptyDocument],
                            <<200>>)]
  /\ UNCHANGED <<store, cache, now, obs, fin, auth, mu>>

\* DocumentServiceImpl.GetDocument after common.CacheWrapper returned, and the
\* handler's response: an error gives 404, otherwise the first projected
\* document (or the zero Document) with 200.
GetDocumentReturn(p) ==
  /\ req[p].pc = "cw_ret"
  /\ req[p].op = "GetDocument"
  /\ req' = [req EXCEPT ![p] =
               IF req[p].err # ""
               THEN Respond([req[p] EXCEPT !.pc = "done"], <<404>>)
               ELSE Respond([req[p] EXCEPT !.pc = "done",
                               !.res = IF Len(req[p].val) > 0 THEN req[p].val[1]
                                       ELSE EmptyDocument],
                            <<200>>)]
  /\ UNCHANGED <<store, cache, now, obs, fin, auth, mu>>

\* The same request with the handler's status validation left out.
UpdateDocumentUnchecked(p, a, d, statusIn, keyFails, ord) ==
  /\ req[p].pc = "idle"
  /\ ~keyFails
  /\ now < MaxTime
  /\ now' = TimeNow
  /\ req' = [req EXCEPT ![p] =
               [IdleReq EXCEPT !.pc = "inv_write", !.op = "UpdateDocument",
                  !.a = a, !.d = d, !.statusIn = statusIn, !.status = ParseDocumentStatus(statusIn).status,
                  !.ts = TimeNow, !.key = UpdateDocumentKey(a, d, ord)]]
  /\ obs' = [obs EXCEPT ![p] = StartObs(a, d, ord)]
  /\ UNCHANGED <<store, cache, fin, auth, mu>>

\* controllers.UpdateDocument: a status outside the enumeration is answered
\* 400 "Invalid status" before the service is called.  Then
\* DocumentServiceImpl.UpdateDocument up to its call of common.InvalidateCache:
\* the cache key, and the update stamped with time.Now().
UpdateDocument(p, a, d, statusIn, keyFails, ord) ==
  /\ req[p].pc = "idle"
  /\ LET r == [IdleReq EXCEPT !.op = "UpdateDocument", !.a = a, !.d = d,
                                !.statusIn = statusIn]
         o == StartObs(a, d, ord)
         parsed == ParseDocumentStatus(statusIn)
     IN IF ~parsed.ok
        THEN /\ req' = [req EXCEPT ![p] =
                          Respond([r EXCEPT !.pc = "done",
                                            !.err = "ValidationError"], <<400>>)]
             /\ obs' = [obs EXCEPT ![p] = o]
             /\ now' = now
        ELSE IF keyFails
        THEN /\ req' = [req EXCEPT ![p] =
                          Respond([r EXCEPT !.pc = "done", !.status = parsed.status,
                                            !.err = "KeyDerivationError"],
                                  <<500, 404>>)]
             /\ obs' = [obs EXCEPT ![p] = [o EXCEPT !.keyErr = TRUE]]
             /\ now' = now
        ELSE /\ now < MaxTime
             /\ now' = TimeNow
             /\ req' = [req EXCEPT ![p] =
                          [r EXCEPT !.pc = "inv_write", !.status = parsed.status,
                             !.ts = TimeNow,
                             !.key = UpdateDocumentKey(a, d, ord)]]
             /\ obs' = [obs EXCEPT ![p] = o]
  /\ UNCHANGED <<store, cache, fin, auth, mu>>

\* The same step with the error of InvalidateCache ignored.
UpdateDocumentIgnoreError(p) ==
  /\ req[p].pc = "inv_ret"
  /\ req[p].op = "UpdateDocument"
  /\ LET k == GetDocumentKey(req[p].a, req[p].d, obs[p].ord)
     IN CacheWrapperLookup(p, [req[p] EXCEPT !.err = "", !.key = k], obs[p], k)
  /\ UNCHANGED <<store, now, fin, auth, mu>>

\* DocumentServiceImpl.UpdateDocument after common.InvalidateCache returned: an
\* error ends the request (500 by the service, 404 by the handler); otherwise
\* the updated document is read back through GetDocument.
UpdateDocumentReread(p) ==
  /\ req[p].pc = "inv_ret"
  /\ req[p].op = "UpdateDocument"
  /\ IF req[p].err # ""
     THEN /\ req' = [req EXCEPT ![p] =
                       Respond([req[p] EXCEPT !.pc = "done"], <<500, 404>>)]
          /\ UNCHANGED <<cache, obs>>
     ELSE LET k == GetDocumentKey(req[p].a, req[p].d, obs[p].ord)
          IN CacheWrapperLookup(p, [req[p] EXCEPT !.key = k], obs[p], k)
  /\ UNCHANGED <<store, now, fin, auth, mu>>

\* DocumentServiceImpl.UpdateDocument after its GetDocument returned, and the
\* handler's response.
UpdateDocumentReturn(p) ==
  /\ req[p].pc = "cw_ret"
  /\ req[p].op = "UpdateDocument"
  /\ IF req[p].err # ""
     THEN /\ req' = [req EXCEPT ![p] =
                       Respond([req[p] EXCEPT !.pc = "done"], <<500, 404>>)]
          /\ fin' = fin
     ELSE /\ req' = [req EXCEPT ![p] =
                       Respond([req[p] EXCEPT !.pc = "done",
                                  !.res = IF Len(req[p].val) > 0 THEN req[p].val[1]
                                          ELSE EmptyDocument],
                               <<200>>)]
          /\ fin' = IF obs[p].wrote
                    THEN [fin EXCEPT ![<<req[p].a, obs[p].wdoc>>] =
                            Max(@, obs[p].wrev)]
                    ELSE fin
  /\ UNCHANGED <<store, cache, now, obs, auth, mu>>

\* ------------------------------------------------------------------ applicants

\* controllers.UpdateApplicant, then ApplicantServiceImpl.UpdateApplicant up to
\* its call of common.InvalidateCache: the applicant's cache key, and the
\* caller's fields with updated_at = time.Now() as the "$set" document.
UpdateApplicant(p, a, c, updates, keyFails, ord) ==
  /\ req[p].pc = "idle"
  /\ LET r == [IdleReq EXCEPT !.op = "UpdateApplicant", !.a = a, !.client = c,
                              !.upd = updates]
     IN IF keyFails
        THEN /\ req' = [req EXCEPT ![p] =
                          Respond([r EXCEPT !.pc = "done",
                                            !.err = "KeyDerivationError"],
                                  <<500, 404>>)]
             /\ obs' = [obs EXCEPT ![p] = [IdleObs EXCEPT !.keyErr = TRUE]]
             /\ now' = now
        ELSE /\ now < MaxTime
             /\ now' = TimeNow
             /\ req' = [req EXCEPT ![p] =
                          [r EXCEPT !.pc = "inv_write", !.ts = TimeNow,
                             !.key = UpdateApplicantKey(a, c, ord)]]
             /\ obs' = [obs EXCEPT ![p] = [IdleObs EXCEPT !.ord = ord]]
  /\ UNCHANGED <<store, cache, fin, auth, mu>>

\* ApplicantServiceImpl.UpdateApplicant after common.InvalidateCache returned:
\* an error ends the request; otherwise GetApplicant reads the applicant back
\* from the store (FindOne, no cache) and the handler answers.
UpdateApplicantReread(p) ==
  /\ req[p].pc = "inv_ret"
  /\ req[p].op = "UpdateApplicant"
  /\ LET a == req[p].a IN
     IF req[p].err # ""
     THEN /\ req' = [req EXCEPT ![p] =
                       Respond([req[p] EXCEPT !.pc = "done"], <<500, 404>>)]
          /\ UNCHANGED <<obs, fin>>
     ELSE \/ /\ ApplicantFilterMatches(store, a, req[p].client)
             /\ req' = [req EXCEPT ![p] =
                          RespondJSON(
                            Logged([req[p] EXCEPT !.pc = "done",
                                                  !.resA = store[a]],
                                   ApplicantAtoms(store[a])),
                            Body(200, "", "", a, ApplicantAtoms(store[a])))]
             /\ obs' = [obs EXCEPT ![p].queries = @ + 1]
             /\ fin' = IF obs[p].wrote /\ obs[p].wrev > 0
                       THEN [fin EXCEPT ![<<a, obs[p].wdoc>>] = Max(@, obs[p].wrev)]
                       ELSE fin
          \/ /\ \E e \in {"StoreError", "NotFound"} :
                  /\ (e = "NotFound") => ~ApplicantFilterMatches(store, a, req[p].client)
                  /\ req' = [req EXCEPT ![p] =
                               Respond([req[p] EXCEPT !.pc = "done", !.err = e],
                                       <<404, 500, 404>>)]
             /\ obs' = [obs EXCEPT ![p].queries = @ + 1]
             /\ fin' = fin
  /\ UNCHANGED <<store, cache, now, auth, mu>>

\* controllers.GetApplicant and ApplicantServiceImpl.GetApplicant: FindOne by
\* client, applicant id and deleted = false, straight from the store. Any error
\* of FindOne is answered 404 by the service and again by the handler; a match
\* is logged and returned as it is stored.
GetApplicant(p, a, c) ==
  /\ req[p].pc = "idle"
  /\ LET r == [IdleReq EXCEPT !.op = "GetApplicant", !.a = a, !.client = c,
                              !.pc = "done"]
     IN \/ /\ ApplicantFilterMatches(store, a, c)
           /\ req' = [req EXCEPT ![p] =
                        RespondJSON(
                          Logged([r EXCEPT !.resA = store[a]],
                                 ApplicantAtoms(store[a])),
                          Body(200, "", "", a, ApplicantAtoms(store[a])))]
        \/ \E e \in {"StoreError", "NotFound"} :
             /\ (e = "NotFound") => ~ApplicantFilterMatches(store, a, c)
             /\ req' = [req EXCEPT ![p] =
                          RespondJSON(
                            RespondJSON([r EXCEPT !.err = e],
                                        Body(404, "", "Applicant not found", "",
                                             {})),
                            Body(404, "", e, "", {}))]
  /\ obs' = [obs EXCEPT ![p] = [IdleObs EXCEPT !.queries = 1]]
  /\ UNCHANGED <<store, cache, now, fin, auth, mu>>

\* The applicants Find returns for {"client_id": c, "deleted": false}.
FindApplicants(st, c) ==
  {st[a] : a \in {x \in ApplicantIds :
                    st[x].present /\ st[x].client_id = c /\ ~st[x].deleted}}

\* controllers.GetAllApplicants and ApplicantServiceImpl.GetAllApplicants: the
\* client's non-deleted applicants as stored, or 500 from the service and
\* again from the handler when Find, Decode or the cursor fails.
GetAllApplicants(p, c) ==
  /\ req[p].pc = "idle"
  /\ LET r == [IdleReq EXCEPT !.op = "GetAllApplicants", !.client = c,
                              !.pc = "done"]
         found == FindApplicants(store, c)
     IN \/ req' = [req EXCEPT ![p] =
                     RespondJSON([r EXCEPT !.list = found],
                                 Body(200, "", "", "",
                                      UNION {ApplicantAtoms(x) : x \in found}))]
        \/ req' = [req EXCEPT ![p] =
                     RespondJSON(
                       RespondJSON([r EXCEPT !.err = "StoreError"],
                                   Body(500, "", "Could not fetch applicants", "",
                                        {})),
                       Body(500, "", "Could not retrieve applicants", "", {}))]
  /\ obs' = [obs EXCEPT ![p] = [IdleObs EXCEPT !.queries = 1]]
  /\ UNCHANGED <<store, cache, now, fin, auth, mu>>

\* Ids uuid.New() has not handed out yet.
FreeApplicantIds ==
  {a \in ApplicantIds :
     /\ ~store[a].present
     /\ \A q \in Procs : req[q].applicant.applicant_id # a}

FreeDocIds ==
  {d \in DocIds :
     /\ \A a \in ApplicantIds : ~HasDoc(store[a].documents, d)
     /\ \A q \in Procs : req[q].doc.document_id # d}

\* Data keys the key provider has not issued for a record or a running request:
\* every call of GenerateDataKey yields a key of its own.
FreeDataKeys ==
  {k \in DataKeys :
     /\ \A a \in ApplicantIds :
          store[a].encrypted_data.encrypted_key # GenerateDataKey(k).encryptedKey
     /\ \A q \in Procs :
          req[q].applicant.encrypted_data.encrypted_key
            # GenerateDataKey(k).encryptedKey}

\* createApplicantObject: a fresh id, the encrypted fields, and two readings of
\* time.Now() for CreatedAt and UpdatedAt.
createApplicantObject(id, firstName, encryptedData) ==
  [present |-> TRUE, applicant_id |-> id, client_id |-> "placeholder",
   first_name |-> firstName, deleted |-> FALSE, deleted_at |-> "nil",
   deleted_by |-> "nil", created_at |-> now + 1,
   updated_at |-> now + 2, encrypted_data |-> encryptedData, documents |-> <<>>]

\* The applicant controllers.CreateApplicant assembles from its input and the
\* data key: both sensitive fields sealed under the plaintext key, the
\* encrypted key beside them.
AssembleApplicant(id, dob, address, dataKey) ==
  createApplicantObject(id, "n1",
    EncryptedData(EncryptField(dob, dataKey.plaintextKey),
                  EncryptAddress(address, dataKey.plaintextKey),
                  dataKey.plaintextKey, dataKey.encryptedKey))

\* The request as controllers.CreateApplicant starts on it: the raw body is
\* logged before it is bound.
CreateApplicantStart(c, dob, address) ==
  Logged([IdleReq EXCEPT !.op = "CreateApplicant", !.client = c, !.dob = dob,
                         !.address = address],
         {Raw(dob), Raw(address)})

\* The same handler going on to the insert after a key or encryption error.
CreateApplicantIgnoreKeyError(p, c, dob, address, bindOk, kmsOk, encOk) ==
  /\ req[p].pc = "idle"
  /\ bindOk
  /\ now + 2 <= MaxTime
  /\ FreeApplicantIds # {}
  /\ FreeDataKeys # {}
  /\ LET id == CHOOSE a \in FreeApplicantIds : TRUE
         dataKey == GenerateDataKey(CHOOSE k \in FreeDataKeys : TRUE)
         applicant == AssembleApplicant(id, dob, address, dataKey)
     IN
       /\ req' = [req EXCEPT ![p] =
                    Logged([CreateApplicantStart(c, dob, address) EXCEPT
                              !.pc = "insert", !.applicant = applicant],
                           ApplicantAtoms(applicant))]
       /\ obs' = [obs EXCEPT ![p] =
                    [IdleObs EXCEPT !.kms = 1, !.kmsFailed = ~(kmsOk /\ encOk)]]
       /\ now' = now + 2
  /\ UNCHANGED <<store, cache, fin, auth, mu>>

\* controllers.CreateApplicant up to its call of the service: log and bind the
\* body, GenerateDataKey, EncryptField(DOB), EncryptAddress, the EncryptedData
\* literal, createApplicantObject, and the log line of the assembled applicant.
\* Each failure answers at once and ends the request.
CreateApplicant(p, c, dob, address, bindOk, kmsOk, encOk) ==
  /\ req[p].pc = "idle"
  /\ LET r == CreateApplicantStart(c, dob, address) IN
     IF ~bindOk
     THEN /\ req' = [req EXCEPT ![p] =
                       RespondJSON([r EXCEPT !.pc = "done",
                                             !.err = "ValidationError"],
                                   Body(400, "", "binding", "", {}))]
          /\ obs' = [obs EXCEPT ![p] = IdleObs]
          /\ now' = now
     ELSE IF ~kmsOk
     THEN /\ req' = [req EXCEPT ![p] =
                       RespondJSON([r EXCEPT !.pc = "done",
                                             !.err = "KeyProviderError"],
                                   Body(500, "", "Could not create applicant",
                                        "", {}))]
          /\ obs' = [obs EXCEPT ![p] =
                       [IdleObs EXCEPT !.kms = 1, !.kmsFailed = TRUE]]
          /\ now' = now
     ELSE IF ~encOk
     THEN /\ req' = [req EXCEPT ![p] =
                       RespondJSON([r EXCEPT !.pc = "done",
                                             !.err = "EncryptError"],
                                   Body(500, "", "Could not create applicant",
                                        "", {}))]
          /\ obs' = [obs EXCEPT ![p] =
                       [IdleObs EXCEPT !.kms = 1, !.kmsFailed = TRUE]]
          /\ now' = now
     ELSE /\ now + 2 <= MaxTime
          /\ FreeApplicantIds # {}
          /\ FreeDataKeys # {}
          /\ LET id == CHOOSE a \in FreeApplicantIds : TRUE
                 dataKey == GenerateDataKey(CHOOSE k \in FreeDataKeys : TRUE)
                 applicant == AssembleApplicant(id, dob, address, dataKey)
             IN req' = [req EXCEPT ![p] =
                          Logged([r EXCEPT !.pc = "insert",
                                           !.applicant = applicant],
                                 ApplicantAtoms(applicant))]
          /\ obs' = [obs EXCEPT ![p] = [IdleObs EXCEPT !.kms = 1]]
          /\ now' = now + 2
  /\ UNCHANGED <<store, cache, fin, auth, mu>>

\* ApplicantServiceImpl.CreateApplicant: the client id from the context, then
\* InsertOne; the handler answers 200, or 500 after the service's own 500.
CreateApplicantInsert(p) ==
  /\ req[p].pc = "insert"
  /\ LET rec == [req[p].applicant EXCEPT !.client_id = req[p].client]
         a == rec.applicant_id
     IN \/ /\ store' = [store EXCEPT ![a] = rec]
           /\ req' = [req EXCEPT ![p] =
                        RespondJSON([req[p] EXCEPT !.pc = "done", !.a = a,
                                                   !.resA = rec],
                                    Body(200, "Applicant created successfully",
                                         "", a, {}))]
           /\ obs' = [obs EXCEPT ![p].inserts = @ + 1, ![p].wrote = TRUE]
        \/ /\ store' = store
           /\ req' = [req EXCEPT ![p] =
                        RespondJSON(
                          RespondJSON([req[p] EXCEPT !.pc = "done",
                                                     !.err = "StoreError"],
                                      Body(500, "", "Could not create applicant",
                                           "", {})),
                          Body(500, "", "Could not create applicant", "", {}))]
           /\ obs' = [obs EXCEPT ![p].inserts = @ + 1, ![p].storeFailed = TRUE]
  /\ UNCHANGED <<cache, now, fin, auth, mu>>

\* ------------------------------------------------------------------ uploads

\* The same object with the status of a verified document.
createDocumentObjectVerified(id, applicantID, documentType) ==
  [document_id |-> id, applicant_id |-> applicantID,
   document_type |-> ParseDocumentType(documentType).value,
   status |-> DocumentVerified, file_url |-> "placeholder",
   created_at |-> TimeNow, updated_at |-> TimeNow, deleted |-> FALSE,
   deleted_at |-> "nil", deleted_by |-> "nil", rev |-> 1]

\* createDocumentObject: a fresh document id, the type ParseDocumentType
\* returned (its error is dropped), status Uploaded, one reading of time.Now()
\* for both timestamps, not deleted.
createDocumentObject(id, applicantID, documentType) ==
  [document_id |-> id, applicant_id |-> applicantID,
   document_type |-> ParseDocumentType(documentType).value,
   status |-> DocumentUploaded, file_url |-> "placeholder",
   created_at |-> TimeNow, updated_at |-> TimeNow, deleted |-> FALSE,
   deleted_at |-> "nil", deleted_by |-> "nil", rev |-> 1]

\* mimeTypeToExtension.
mimeTypeToExtension ==
  [m \in {"application/pdf", "image/jpeg", "image/png"} |->
     CASE m = "application/pdf" -> ".pdf"
       [] m = "image/jpeg" -> ".jpeg"
       [] m = "image/png" -> ".png"]

\* Content-Type values of the file part: none, the three known ones, and one
\* the map does not hold.
MimeTypes == {""} \cup DOMAIN mimeTypeToExtension \cup {"text/plain"}

\* GetFileExtension for the types above: the map's entry, or an error
\* (mime.ExtensionsByType is asked only for types the map does not hold, and
\* UploadDocument has returned before for those).
GetFileExtension(mimeType) ==
  IF mimeType \in DOMAIN mimeTypeToExtension
  THEN mimeTypeToExtension[mimeType]
  ELSE "error"

\* Multipart requests to POST /documents: whether the form parses, whether it
\* has the file part "document", that part's Content-Type, and the three form
\* values.
Forms ==
  [parses : BOOLEAN, file : BOOLEAN, mimeType : MimeTypes,
   applicant_id : ApplicantIds \cup {""},
   document_type : {"", DocumentPassport, "selfie"},
   country : {"", "US"}]

\* A form that passes every check, for applicant a.
ValidForm(a) ==
  [parses |-> TRUE, file |-> TRUE, mimeType |-> "application/pdf",
   applicant_id |-> a, document_type |-> DocumentPassport, country |-> "US"]

\* The forms of the runs that are not about the form checks: a valid one for
\* each applicant id and one that does not parse.
SeqForms ==
  {ValidForm(a) : a \in ApplicantIds}
    \cup {[ValidForm("a1") EXCEPT !.parses = FALSE]}

\* The same checks without the one for a Content-Type the map does not hold.
UploadFormErrorAnyType(form) ==
  IF ~form.parses THEN "unable to parse form data"
  ELSE IF ~form.file THEN "unable to retrieve the file"
  ELSE IF form.mimeType = "" THEN "unable to determine MIME type"
  ELSE IF form.applicant_id = "" THEN "applicant_id is required"
  ELSE IF form.document_type = "" THEN "document_type is required"
  ELSE IF form.country = "" THEN "country is required"
  ELSE ""

\* DocumentServiceImpl.UploadDocument before createDocumentObject: the checks
\* in the order of the code, each returning its own error; "" when all pass.
UploadFormError(form) ==
  IF ~form.parses THEN "unable to parse form data"
  ELSE IF ~form.file THEN "unable to retrieve the file"
  ELSE IF form.mimeType = "" THEN "unable to determine MIME type"
  ELSE IF form.mimeType \notin DOMAIN mimeTypeToExtension
       THEN "unsupported MIME type"
  ELSE IF GetFileExtension(form.mimeType) = "error"
       THEN "unsupported file extension type"
  ELSE IF form.applicant_id = "" THEN "applicant_id is required"
  ELSE IF form.document_type = "" THEN "document_type is required"
  ELSE IF form.country = "" THEN "country is required"
  ELSE ""

\* controllers.CreateDocument, then DocumentServiceImpl.UploadDocument up to
\* mu.Lock(): the form checks, createDocumentObject, Uploader.UploadFile. An
\* error of either is answered 500 by the handler.
UploadDocument(p, form, uploadOk) ==
  /\ req[p].pc = "idle"
  /\ LET r == [IdleReq EXCEPT !.op = "UploadDocument"]
         e == UploadFormError(form)
     IN
     IF e # ""
     THEN /\ req' = [req EXCEPT ![p] =
                       RespondJSON([r EXCEPT !.pc = "done", !.err = e],
                                   Body(500, "", e, "", {}))]
          /\ obs' = [obs EXCEPT ![p] = [IdleObs EXCEPT !.form = form]]
          /\ now' = now
     ELSE /\ now < MaxTime
          /\ FreeDocIds # {}
          /\ now' = TimeNow
          /\ obs' = [obs EXCEPT ![p] = [IdleObs EXCEPT !.form = form,
                                                       !.uploads = 1]]
          /\ LET a == form.applicant_id
                 doc == createDocumentObject(CHOOSE d \in FreeDocIds : TRUE, a,
                                             form.document_type)
             IN
             IF ~uploadOk
             THEN req' = [req EXCEPT ![p] =
                            RespondJSON([r EXCEPT !.pc = "done", !.a = a,
                                           !.err = "error uploading file to S3"],
                                        Body(500, "",
                                             "error uploading file to S3", "",
                                             {}))]
             ELSE req' = [req EXCEPT ![p] =
                            [r EXCEPT !.pc = "mu_lock", !.a = a,
                                      !.doc = [doc EXCEPT !.file_url =
                                                 UploadedFileURL],
                                      !.d = doc.document_id]]
  /\ UNCHANGED <<store, cache, fin, auth, mu>>

\* DocumentServiceImpl.DownloadDocument: FindOne with the filter
\* {"applicant_id": applicantID}, the FileURL of the first document with
\* DocumentID docID, the download from the bucket; the local path or an error.
DownloadDocument(st, docID, applicantID, findOk, downloadOk) ==
  LET found == /\ findOk
               /\ applicantID \in ApplicantIds
               /\ st[applicantID].present
      docs == IF found THEN st[applicantID].documents ELSE <<>>
      fileURL == IF HasDoc(docs, docID)
                 THEN docs[FirstIndex(docs, docID)].file_url ELSE ""
  IN IF ~found
     THEN [filePath |-> "", err |-> "failed to find document in database"]
     ELSE IF fileURL = ""
     THEN [filePath |-> "", err |-> "document not found"]
     ELSE IF ~downloadOk
     THEN [filePath |-> "", err |-> "failed to download file from S3"]
     ELSE [filePath |-> docID, err |-> ""]

\* controllers.SaveDocument: 400 for an empty document id, a body that is not
\* JSON or an empty applicant id, 500 with the error of DownloadDocument, else
\* 200 with the local path.
SaveDocument(p, a, d, bindOk, findOk, downloadOk) ==
  /\ req[p].pc = "idle"
  /\ LET r == [IdleReq EXCEPT !.op = "DownloadDocument", !.a = a, !.d = d,
                              !.pc = "done"]
         out == DownloadDocument(store, d, a, findOk, downloadOk)
     IN IF d = ""
        THEN /\ req' = [req EXCEPT ![p] =
                          RespondJSON([r EXCEPT !.err = "ValidationError"],
                                      Body(400, "",
                                           "document id parameter is required",
                                           "", {}))]
             /\ obs' = [obs EXCEPT ![p] = IdleObs]
        ELSE IF ~bindOk
        THEN /\ req' = [req EXCEPT ![p] =
                          RespondJSON([r EXCEPT !.err = "ValidationError"],
                                      Body(400, "", "Invalid JSON", "", {}))]
             /\ obs' = [obs EXCEPT ![p] = IdleObs]
        ELSE IF a = ""
        THEN /\ req' = [req EXCEPT ![p] =
                          RespondJSON([r EXCEPT !.err = "ValidationError"],
                                      Body(400, "", "Applicant ID is required",
                                           "", {}))]
             /\ obs' = [obs EXCEPT ![p] = IdleObs]
        ELSE IF out.err # ""
        THEN /\ req' = [req EXCEPT ![p] =
                          RespondJSON([r EXCEPT !.err = out.err],
                                      Body(500, "", out.err, "", {}))]
             /\ obs' = [obs EXCEPT ![p] = [IdleObs EXCEPT !.queries = 1]]
        ELSE /\ req' = [req EXCEPT ![p] =
                          RespondJSON(
                            [r EXCEPT !.res =
                               store[a].documents[
                                 FirstIndex(store[a].documents, d)]],
                            Body(200, "File saved successfully", "", d, {}))]
             /\ obs' = [obs EXCEPT ![p] = [IdleObs EXCEPT !.queries = 1]]
  /\ UNCHANGED <<store, cache, now, fin, auth, mu>>

\* The same function answering 200 whatever UpdateOne returned.
CreateDocumentAlwaysOk(r, document, err) ==
  RespondJSON(r, Body(200, "Document created successfully", "",
                      document.document_id, {}))

\* CreateDocument after UpdateOne returned: 500 {"error": "Could not create
\* document"} for an error, else 200 {"message": "Document created
\* successfully", "document_id": document.DocumentID}.
CreateDocumentResponse(r, document, err) ==
  IF err # ""
  THEN RespondJSON(r, Body(500, "", "Could not create document", "", {}))
  ELSE RespondJSON(r, Body(200, "Document created successfully", "",
                           document.document_id, {}))

\* mu.Lock() in UploadDocument: blocks while another task holds mu.
MuLock(p) ==
  /\ req[p].pc = "mu_lock"
  /\ mu = ""
  /\ mu' = p
  /\ req' = [req EXCEPT ![p].pc = "mu_held"]
  /\ UNCHANGED <<store, cache, now, obs, fin, auth>>

\* CreateDocument(...); mu.Unlock(): UpdateOne pushes the document
\* onto the non-deleted applicant's array and CreateDocument answers 200 or 500
\* itself; UploadDocument returns the document with a nil error either way and
\* the handler answers 200 with the document.
CreateDocument(p) ==
  /\ req[p].pc = "mu_held"
  /\ mu' = ""
  /\ LET a == req[p].a
         doc == req[p].doc
         r == [req[p] EXCEPT !.pc = "done", !.res = doc]
         handler == Body(200, "", "", doc.document_id, {})
     IN \/ /\ PushFilterMatches(store, a)
           /\ store' = [store EXCEPT ![a] = PushDocument(store[a], doc)]
           /\ obs' = Overtaken(p, a, [obs[p] EXCEPT !.wrote = TRUE, !.updates = 1,
                                        !.wdoc = doc.document_id, !.wrev = doc.rev])
           /\ fin' = [fin EXCEPT ![<<a, doc.document_id>>] = Max(@, doc.rev)]
           /\ req' = [req EXCEPT ![p] =
                        RespondJSON(CreateDocumentResponse(r, doc, ""), handler)]
        \/ /\ ~PushFilterMatches(store, a)
           /\ store' = store
           /\ obs' = [obs EXCEPT ![p].updates = 1]
           /\ fin' = fin
           /\ req' = [req EXCEPT ![p] =
                        RespondJSON(CreateDocumentResponse(r, doc, ""), handler)]
        \/ /\ store' = store
           /\ obs' = [obs EXCEPT ![p].updates = 1, ![p].storeFailed = TRUE]
           /\ fin' = fin
           /\ req' = [req EXCEPT ![p] =
                        RespondJSON(CreateDocumentResponse(r, doc, "StoreError"),
                                    handler)]
  /\ UNCHANGED <<cache, now, auth>>

\* The same section entered with a nil collection: collection.UpdateOne
\* panics, mu.Unlock() is not reached (it is not deferred), and the server's
\* Recovery middleware ends the request with status 500.
CreateDocumentPanic(p) ==
  /\ req[p].pc = "mu_held"
  /\ req' = [req EXCEPT ![p] =
               Respond([req[p] EXCEPT !.pc = "done", !.err = "panic"], <<500>>)]
  /\ UNCHANGED <<store, cache, now, obs, fin, auth, mu>>

\* ------------------------------------------------------------------ middleware

\* middleware.APIKeyAuthMiddleware: a missing header, or a FindOne that fails
\* or matches no active secret, is answered 401 and the chain is aborted;
\* otherwise the secret's client id is put into the context and the handler
\* of the route runs next.
APIKeyAuthMiddleware(p, apiKey, findOk) ==
  /\ req[p].pc = "idle"
  /\ auth[p].st = "none"
  /\ IF apiKey = ""
     THEN /\ auth' = [auth EXCEPT ![p] = [NoAuth EXCEPT !.st = "aborted"]]
          /\ req' = [req EXCEPT ![p] =
                       RespondJSON([IdleReq EXCEPT !.pc = "done"],
                                   Body(401, "", "API key is missing", "", {}))]
     ELSE IF ~findOk \/ FindSecret(HashAPIKey(apiKey)) = {}
     THEN /\ auth' = [auth EXCEPT ![p] =
                        [NoAuth EXCEPT !.key = apiKey, !.st = "aborted"]]
          /\ req' = [req EXCEPT ![p] =
                       RespondJSON([IdleReq EXCEPT !.pc = "done"],
                                   Body(401, "", "Invalid or inactive API key",
                                        "", {}))]
     ELSE /\ \E secret \in FindSecret(HashAPIKey(apiKey)) :
               auth' = [auth EXCEPT ![p] =
                          [key |-> apiKey, st |-> "passed",
                           client_id |-> secret.client_id]]
          /\ req' = req
  /\ UNCHANGED <<store, cache, now, obs, fin, mu>>

\* ------------------------------------------------------------------ system

\* The handler returned and its response is out: the task ends.
Finish(p) ==
  /\ req[p].pc = "done"
  /\ req' = [req EXCEPT ![p] = IdleReq]
  /\ obs' = [obs EXCEPT ![p] = IdleObs]
  /\ auth' = [auth EXCEPT ![p] = NoAuth]
  /\ UNCHANGED <<store, cache, now, fin, mu>>

\* One request task at a time, every operation, from the empty collection.
SeqProcs == {"p1"}

Next ==
  \E p \in SeqProcs :
    \/ \E a \in ApplicantIds, d \in DocIds, keyFails \in BOOLEAN,
          ord \in RequestOrders :
         GetDocument(p, a, d, keyFails, ord)
    \/ GetDocumentReturn(p)
    \/ \E a \in ApplicantIds, d \in DocIds, s \in StatusInputs,
          keyFails \in BOOLEAN, ord \in RequestOrders :
         UpdateDocument(p, a, d, s, keyFails, ord)
    \/ UpdateDocumentReread(p)
    \/ UpdateDocumentReturn(p)
    \/ \E a \in ApplicantIds, c \in SeqClients, u \in UpdateMaps,
          keyFails \in BOOLEAN, ord \in RequestOrders :
         UpdateApplicant(p, a, c, u, keyFails, ord)
    \/ UpdateApplicantReread(p)
    \/ \E c \in SeqClients, bindOk \in BOOLEAN, kmsOk \in BOOLEAN,
          encOk \in BOOLEAN :
         CreateApplicant(p, c, "1990-01-01", "line1", bindOk, kmsOk, encOk)
    \/ CreateApplicantInsert(p)
    \/ \E a \in ApplicantIds, c \in SeqClients : GetApplicant(p, a, c)
    \/ \E form \in SeqForms, uploadOk \in BOOLEAN :
         UploadDocument(p, form, uploadOk)
    \/ MuLock(p)
    \/ CreateDocument(p)
    \/ CacheWrapperQuery(p)
    \/ CacheWrapperFill(p)
    \/ InvalidateCacheWrite(p)
    \/ InvalidateCacheDrop(p)
    \/ Finish(p)

Spec == Init /\ [][Next]_vars

\* One request task at a time on the applicant routes and the upload route,
\* with every body PUT /applicants/:id accepts and every sensitive value.
NextRecords ==
  \E p \in SeqProcs :
    \/ \E c \in SeqClients, dob \in DobValues, address \in AddressValues,
          bindOk \in BOOLEAN, kmsOk \in BOOLEAN, encOk \in BOOLEAN :
         CreateApplicant(p, c, dob, address, bindOk, kmsOk, encOk)
    \/ CreateApplicantInsert(p)
    \/ \E a \in ApplicantIds, c \in SeqClients : GetApplicant(p, a, c)
    \/ \E c \in SeqClients : GetAllApplicants(p, c)
    \/ \E a \in ApplicantIds, c \in SeqClients,
          u \in UpdateMaps \cup OverwriteMaps :
         UpdateApplicant(p, a, c, u, FALSE, SourceOrder)
    \/ InvalidateCacheWrite(p)
    \/ InvalidateCacheDrop(p)
    \/ UpdateApplicantReread(p)
    \/ \E form \in SeqForms, uploadOk \in BOOLEAN :
         UploadDocument(p, form, uploadOk)
    \/ MuLock(p)
    \/ CreateDocument(p)
    \/ Finish(p)

SpecRecords == Init /\ [][NextRecords]_vars

\* Concurrent request tasks on one applicant that was created and given one
\* document: the collection after CreateApplicant and UploadDocument ran.
SeededApplicant ==
  [present |-> TRUE, applicant_id |-> "a1", client_id |-> "c1",
   first_name |-> "n1", deleted |-> FALSE, deleted_at |-> "nil",
   deleted_by |-> "nil", created_at |-> 1, updated_at |-> 2,
   encrypted_data |->
     EncryptedData(EncryptField("1990-01-01", GenerateDataKey("k1").plaintextKey),
                   EncryptAddress("line1", GenerateDataKey("k1").plaintextKey),
                   GenerateDataKey("k1").plaintextKey,
                   GenerateDataKey("k1").encryptedKey),
   documents |-> <<[document_id |-> "d1", applicant_id |-> "a1",
                    document_type |-> DocumentPassport,
                    status |-> DocumentUploaded,
                    file_url |-> UploadedFileURL, created_at |-> 3,
                    updated_at |-> 3, deleted |-> FALSE, deleted_at |-> "nil",
                    deleted_by |-> "nil", rev |-> 1]>>]

InitConc ==
  /\ store = [a \in ApplicantIds |-> IF a = "a1" THEN SeededApplicant
                                     ELSE NoApplicant]
  /\ cache = [k \in Keys |-> AbsentEntry]
  /\ now = 3
  /\ req = [p \in Procs |-> IdleReq]
  /\ obs = [p \in Procs |-> IdleObs]
  /\ fin = [ad \in ApplicantIds \X DocIdsPlus |->
              IF ad = <<"a1", "d1">> THEN 1 ELSE 0]
  /\ auth = [p \in Procs |-> NoAuth]
  /\ mu = ""

ConcProcs == {"p1", "p2"}

\* The status each of the two tasks asks for when it updates the document.
ConcStatus(p) == IF p = "p1" THEN DocumentVerified ELSE DocumentUploaded

\* Two tasks reading and updating one document; the second may also update
\* the applicant that holds it.
NextConc ==
  \/ \E p \in ConcProcs :
       \/ GetDocument(p, "a1", "d1", FALSE, SourceOrder)
       \/ GetDocumentReturn(p)
       \/ UpdateDocument(p, "a1", "d1", ConcStatus(p), FALSE, SourceOrder)
       \/ UpdateDocumentReread(p)
       \/ UpdateDocumentReturn(p)
       \/ CacheWrapperQuery(p)
       \/ CacheWrapperFill(p)
       \/ InvalidateCacheWrite(p)
       \/ InvalidateCacheDrop(p)
       \/ Finish(p)
  \/ UpdateApplicant("p2", "a1", "c1", {<<"documents.0.status", DocumentVerified>>},
                     FALSE, SourceOrder)
  \/ UpdateApplicantReread("p2")

SpecConc == InitConc /\ [][NextConc]_vars

\* One request task at a time on POST /documents, with every form, on the
\* collection that holds one applicant.
NextUpload ==
  \E p \in SeqProcs :
    \/ \E form \in Forms, uploadOk \in BOOLEAN : UploadDocument(p, form, uploadOk)
    \/ MuLock(p)
    \/ CreateDocument(p)
    \/ Finish(p)

SpecUpload == InitConc /\ [][NextUpload]_vars

\* Two tasks uploading at the same time, to a server whose collection may be
\* nil.
NextMutex ==
  \E p \in ConcProcs :
    \/ \E uploadOk \in BOOLEAN : UploadDocument(p, ValidForm("a1"), uploadOk)
    \/ MuLock(p)
    \/ CreateDocument(p)
    \/ CreateDocumentPanic(p)
    \/ Finish(p)

SpecMutex == Init /\ [][NextMutex]_vars

\* One client working on its applicant a1 and the document d1 of it, with a
\* request body that sets the deletion flag among its requests.
NextDeleted ==
  \E p \in SeqProcs :
    \/ \E u \in SoftDeleteMaps \cup {{<<"first_name", "n2">>}} :
         UpdateApplicant(p, "a1", "c1", u, FALSE, SourceOrder)
    \/ UpdateApplicantReread(p)
    \/ GetApplicant(p, "a1", "c1")
    \/ GetAllApplicants(p, "c1")
    \/ GetDocument(p, "a1", "d1", FALSE, SourceOrder)
    \/ GetDocumentReturn(p)
    \/ UpdateDocument(p, "a1", "d1", DocumentVerified, FALSE, SourceOrder)
    \/ UpdateDocumentReread(p)
    \/ UpdateDocumentReturn(p)
    \/ UploadDocument(p, ValidForm("a1"), TRUE)
    \/ MuLock(p)
    \/ CreateDocument(p)
    \/ \E bindOk \in BOOLEAN, downloadOk \in BOOLEAN :
         SaveDocument(p, "a1", "d1", bindOk, TRUE, downloadOk)
    \/ CacheWrapperQuery(p)
    \/ CacheWrapperFill(p)
    \/ InvalidateCacheWrite(p)
    \/ InvalidateCacheDrop(p)
    \/ Finish(p)

SpecDeleted == InitConc /\ [][NextDeleted]_vars

\* The routes of the group /api/v1/protected behind the middleware, one
\* request task at a time on the collection that holds one applicant: the
\* handler of a route runs when the middleware has passed the request on,
\* with the client id the middleware put into the context.
NextAuth ==
  \E p \in SeqProcs :
    \/ \E apiKey \in ApiKeys, findOk \in BOOLEAN :
         APIKeyAuthMiddleware(p, apiKey, findOk)
    \/ /\ auth[p].st = "passed"
       /\ \/ CreateApplicant(p, auth[p].client_id, "1990-01-01", "line1",
                              TRUE, TRUE, TRUE)
          \/ UpdateApplicant(p, "a1", auth[p].client_id,
                             {<<"first_name", "n2">>}, FALSE, SourceOrder)
          \/ UploadDocument(p, ValidForm("a1"), TRUE)
          \/ GetDocument(p, "a1", "d1", FALSE, SourceOrder)
          \/ UpdateDocument(p, "a1", "d1", DocumentVerified, FALSE, SourceOrder)
          \/ SaveDocument(p, "a1", "d1", TRUE, TRUE, TRUE)
    \/ CreateApplicantInsert(p)
    \/ UpdateApplicantReread(p)
    \/ MuLock(p)
    \/ CreateDocument(p)
    \/ GetDocumentReturn(p)
    \/ UpdateDocumentReread(p)
    \/ UpdateDocumentReturn(p)
    \/ CacheWrapperQuery(p)
    \/ CacheWrapperFill(p)
    \/ InvalidateCacheWrite(p)
    \/ InvalidateCacheDrop(p)
    \/ Finish(p)

SpecAuth == InitConc /\ [][NextAuth]_vars

\* The tasks of readers reading one document while the first task may also
\* update it; the tasks of repeaters issue request after request.
ReadNext(readers, repeaters) ==
  \/ \E p \in readers :
       \/ GetDocument(p, "a1", "d1", FALSE, SourceOrder)
       \/ GetDocumentReturn(p)
       \/ CacheWrapperQuery(p)
       \/ CacheWrapperFill(p)
  \/ \E p \in repeaters : Finish(p)
  \/ UpdateDocument("p1", "a1", "d1", DocumentVerified, FALSE, SourceOrder)
  \/ InvalidateCacheWrite("p1")
  \/ InvalidateCacheDrop("p1")
  \/ UpdateDocumentReread("p1")
  \/ UpdateDocumentReturn("p1")

\* Three readers, the first of them issuing request after request.
NextRead == ReadNext(Procs, {"p1"})

SpecRead == InitConc /\ [][NextRead]_vars

\* Two readers issuing request after request.
NextGate == ReadNext(ConcProcs, ConcProcs)

SpecGate == InitConc /\ [][NextGate]_vars

\* The request tasks under a fair scheduler: a populating task that can finish
\* its store query or its fill eventually does (the driver bounds every query
\* by the request context's deadline).
SpecGateFair ==
  /\ SpecGate
  /\ \A p \in Procs :
       /\ WF_vars(CacheWrapperQuery(p))
       /\ WF_vars(CacheWrapperFill(p))

\* ------------------------------------------------------------------ claims

DoneOk(p, op) == req[p].pc = "done" /\ req[p].op = op /\ req[p].err = ""

\* C1: a GetDocument that starts after a write to the applicant's record has
\* returned success never returns a projection of the document older than the
\* one that write left (need is the newest revision written by a completed
\* write when the read started).
NoStaleRead ==
  \A p \in Procs :
    DoneOk(p, "GetDocument") => req[p].res.rev >= obs[p].need

\* C2: the cache key is dropped only by a request whose store update was
\* acknowledged; a step in which the store update fails leaves the whole cache
\* as it was, and that request ends with an error and never drops the key.
WriteOrderingStep ==
  \A p \in Procs :
    /\ (~obs[p].dropped /\ obs'[p].dropped) =>
         (obs[p].acked /\ ~obs[p].storeFailed /\ obs[p].updates = 1)
    /\ (~obs[p].storeFailed /\ obs'[p].storeFailed) => cache' = cache
    /\ (obs[p].storeFailed /\ obs'[p].storeFailed) =>
         (cache'[req[p].key] = cache[req[p].key] \/ req'[p] = req[p])

WriteOrderingEnd ==
  \A p \in Procs :
    (req[p].op \in {"UpdateDocument", "UpdateApplicant"} /\ obs[p].storeFailed
       /\ req[p].pc = "done")
      => (req[p].err = "StoreError" /\ ~obs[p].dropped /\ ~obs[p].acked
            /\ req[p].res = EmptyDocument /\ req[p].resA = NoApplicant)

\* C2 (write ordering): every step obeys the order and every failed update
\* ends as stated.
WriteOrdering == [][WriteOrderingStep]_vars /\ []WriteOrderingEnd

WriteOrderingWitness ==
  /\ \E p \in Procs :
       req[p].op = "UpdateDocument" /\ obs[p].storeFailed /\ req[p].pc = "done"
         /\ cache[req[p].key].st = "Valid"
  /\ \E p \in Procs :
       req[p].op = "UpdateDocument" /\ obs[p].dropped /\ obs[p].wrote

\* C3: a GetDocument issued while its key is being populated issues no store
\* query of its own, waits for the populating request (which issues exactly
\* one), and receives that request's outcome in the step that ends the
\* population.
SingleFlightState ==
  \A p \in Procs :
    /\ (req[p].op = "GetDocument" /\ obs[p].entry = "Populating") =>
         (obs[p].queries = 0 /\ obs[p].joined)
    /\ obs[p].queries <= 1
    /\ req[p].pc = "cw_wait" =>
         (req[req[p].wait].pc \in {"cw_query", "cw_fill"}
            /\ req[req[p].wait].key = req[p].key
            /\ obs[req[p].wait].queries = (IF req[req[p].wait].pc = "cw_fill"
                                           THEN 1 ELSE 0))

SingleFlightStep ==
  \A p \in Procs, q \in Procs :
    (req[q].pc = "cw_wait" /\ req[q].wait = p
       /\ (req'[q].pc # "cw_wait" \/ req'[p].pc \notin {"cw_query", "cw_fill"})) =>
      (req'[q].pc = "cw_ret" /\ req'[p].pc = "cw_ret"
         /\ req'[q].val = req'[p].val /\ req'[q].err = req'[p].err
         /\ obs'[q].queries = 0 /\ obs'[p].queries = 1)

\* C3 (single-flight): one query per population, its result to every caller.
SingleFlight == []SingleFlightState /\ [][SingleFlightStep]_vars

SingleFlightWitness ==
  \E p \in Procs, q \in Procs, r \in Procs :
    /\ p # q /\ p # r /\ q # r
    /\ \A t \in {p, q, r} :
         req[t].op = "GetDocument" /\ req[t].pc = "done" /\ req[t].err = ""
    /\ obs[p].entry = "Absent" /\ obs[p].queries = 1
    /\ \A t \in {q, r} : obs[t].entry = "Populating" /\ obs[t].joined
    /\ req[q].res = req[p].res /\ req[r].res = req[p].res
    /\ req[p].res.document_id = "d1" /\ req[p].res.status = DocumentVerified

\* C4: a GetDocument that finds its key Valid returns the cached projection
\* and issues no store query; one that finds it Absent issues one query, after
\* which the key is Valid with the queried projection if the query succeeded
\* and Absent if it failed or matched nothing; a Valid key always holds a
\* projection of its own document.
GetProtocolState ==
  /\ \A p \in Procs :
       req[p].op = "GetDocument" =>
         /\ (obs[p].entry = "Valid" /\ req[p].pc \in {"cw_ret", "done"}) =>
              (obs[p].queries = 0 /\ obs[p].hit /\ req[p].err = ""
                 /\ req[p].val = obs[p].entryVal
                 /\ (req[p].pc = "done" => req[p].res = obs[p].entryVal[1]))
         /\ (obs[p].entry = "Absent" /\ req[p].pc \in {"cw_fill", "cw_ret", "done"})
              => (obs[p].queries = 1 /\ ~obs[p].hit)
         /\ (obs[p].entry = "Absent" /\ req[p].pc = "cw_query") =>
              obs[p].queries = 0
  /\ \A k \in Keys :
       cache[k].st = "Valid" =>
         /\ Len(cache[k].val) = 1
         /\ \E a \in ApplicantIds, d \in DocIds :
              /\ k = GetDocumentKey(a, d, SourceOrder)
              /\ cache[k].val[1].document_id = d
              /\ cache[k].val[1].applicant_id = a

GetProtocolStep ==
  \A p \in Procs :
    LET k == req[p].key
        leads == cache[k].st = "Populating" /\ cache[k].leader = p
    IN /\ (req[p].pc = "idle" /\ req'[p].op = "GetDocument" /\ ~obs'[p].keyErr) =>
            /\ store' = store
            /\ cache[req'[p].key].st = "Valid" =>
                 (cache' = cache /\ req'[p].pc = "cw_ret")
            /\ cache[req'[p].key].st = "Absent" =>
                 (cache'[req'[p].key].st = "Populating" /\ req'[p].pc = "cw_query")
       /\ (req[p].pc = "cw_query" /\ leads /\ req'[p].pc = "cw_ret") =>
            (req'[p].err # "" /\ cache'[k] = AbsentEntry)
       /\ (req[p].pc = "cw_fill" /\ leads /\ req'[p].pc = "cw_ret") =>
            (req'[p].err = "" /\ cache'[k].st = "Valid"
               /\ cache'[k].val = req'[p].val /\ Len(req'[p].val) = 1)

\* C4 (Get protocol per key): the states and the steps above.
GetProtocol == []GetProtocolState /\ [][GetProtocolStep]_vars

GetProtocolWitness ==
  /\ \E p \in Procs :
       /\ req[p].op = "GetDocument" /\ obs[p].entry = "Valid" /\ req[p].pc = "done"
       /\ req[p].res.status = DocumentVerified
  /\ \E p \in Procs :
       /\ req[p].op = "GetDocument" /\ obs[p].entry = "Absent" /\ req[p].pc = "done"
       /\ req[p].err = "StoreError" /\ cache[req[p].key].st = "Absent"

ClosedStatusState ==
  \A p \in Procs :
    (req[p].op = "UpdateDocument" /\ req[p].statusIn \notin DocumentStatuses) =>
      /\ req[p].pc = "done"
      /\ req[p].resp = <<400>>
      /\ req[p].err = "ValidationError"
      /\ obs[p].updates = 0 /\ obs[p].queries = 0
      /\ ~obs[p].wrote /\ ~obs[p].dropped /\ ~obs[p].acked
      /\ req[p].key = NoKey
      /\ req[p].res = EmptyDocument

ClosedStatusStep ==
  \A p \in Procs :
    (req'[p] # req[p] /\ req'[p].op = "UpdateDocument"
       /\ req'[p].statusIn \notin DocumentStatuses) =>
      (store' = store /\ cache' = cache /\ now' = now)

\* C6 (closed status enumeration): rejected with 400, nothing touched.
ClosedStatus == []ClosedStatusState /\ [][ClosedStatusStep]_vars

ClosedStatusWitness ==
  \E p \in Procs :
    /\ req[p].op = "UpdateDocument" /\ req[p].statusIn = "invalid_status"
    /\ req[p].pc = "done" /\ req[p].resp = <<400>>
    /\ DocFilterMatches(store, req[p].a, req[p].d)

\* C7: a CreateApplicant request calls GenerateDataKey at most once, exactly
\* once when its body binds; when GenerateDataKey or an encryption fails the
\* request ends at once with 500, inserts nothing, and the store is as it was.
KeyFailureAbortsState ==
  \A p \in Procs :
    req[p].op = "CreateApplicant" =>
      /\ obs[p].kms = (IF req[p].err = "ValidationError" THEN 0 ELSE 1)
      /\ obs[p].inserts <= 1
      /\ (obs[p].kmsFailed \/ req[p].err \in {"KeyProviderError", "EncryptError"}) =>
           /\ req[p].pc = "done"
           /\ req[p].err \in {"KeyProviderError", "EncryptError"}
           /\ req[p].resp = <<500>>
           /\ obs[p].inserts = 0
           /\ ~obs[p].wrote
           /\ req[p].applicant = NoApplicant

KeyFailureAbortsStep ==
  \A p \in Procs :
    (req'[p] # req[p] /\ req'[p].op = "CreateApplicant" /\ obs'[p].kmsFailed) =>
      store' = store

\* C7 (key-provider failure aborts creation): one call, no insert.
KeyFailureAborts == []KeyFailureAbortsState /\ [][KeyFailureAbortsStep]_vars

KeyFailureAbortsWitness ==
  /\ \E p \in Procs :
       req[p].op = "CreateApplicant" /\ req[p].err = "KeyProviderError"
         /\ obs[p].kms = 1
  /\ \E a \in ApplicantIds : store[a].present

\* C8: a population whose request is cancelled ends with the key Absent; a
\* Populating key always has a live populating task; and under fair scheduling
\* every Populating key leaves Populating and every waiting GetDocument stops
\* waiting.
CancelledPopulationStep ==
  \A p \in Procs :
    (req[p].pc = "cw_query" /\ req'[p].pc = "cw_ret" /\ req'[p].err = "Cancelled"
       /\ cache[req[p].key].st = "Populating" /\ cache[req[p].key].leader = p)
      => cache'[req[p].key] = AbsentEntry

PopulatingHasTask ==
  \A k \in Keys :
    cache[k].st = "Populating" =>
      \E p \in Procs :
        /\ cache[k].leader = p
        /\ req[p].key = k
        /\ req[p].pc \in {"cw_query", "cw_fill"}

KeyDerivationBypass ==
  \A p \in Procs :
    (obs[p].keyErr /\ req[p].pc = "done") =>
      (req[p].err = "" /\ 500 \notin {req[p].resp[i] : i \in 1..Len(req[p].resp)})

\* Every derivation of a key agrees with every other derivation for the same
\* ids and collection, whatever the order the filter entries are visited in.
KeysOrderIndependent ==
  \A n \in CollectionNames, o1 \in Perms3, o2 \in Perms3, a \in ApplicantIds :
    /\ \A d \in DocIds :
         /\ DocGenerateFilterAndCacheKey(a, d, n, o1)
              = DocGenerateFilterAndCacheKey(a, d, n, o2)
         /\ UpdateDocumentKey(a, d, o1) = GetDocumentKey(a, d, o2)
    /\ \A c \in Clients :
         ApplicantGenerateFilterAndCacheKey(a, c, n, o1)
           = ApplicantGenerateFilterAndCacheKey(a, c, n, o2)

NoHardDelete ==
  [][\A a \in ApplicantIds :
       store[a].present =>
         /\ store'[a].present
         /\ \A i \in 1..Len(store[a].documents) :
              HasDoc(store'[a].documents, store[a].documents[i].document_id)]_vars

\* C12 (monotone updatedAt): a step that changes a stored applicant record
\* leaves its updated_at strictly greater than before.
MonotoneUpdatedAt ==
  [][\A a \in ApplicantIds :
       (store[a].present /\ store'[a] # store[a]) =>
         store'[a].updated_at > store[a].updated_at]_vars

\* C13 (plaintext data key confinement): no data key in the clear is part of a
\* stored applicant, of a log line or of a response body, and the key stored
\* with an applicant is the encrypted one.
PlaintextKeyConfined ==
  /\ \A k \in DataKeys :
       LET plaintextKey == GenerateDataKey(k).plaintextKey IN
         /\ \A a \in ApplicantIds : plaintextKey \notin ApplicantAtoms(store[a])
         /\ \A p \in Procs :
              /\ plaintextKey \notin req[p].log
              /\ plaintextKey \notin ApplicantAtoms(req[p].applicant)
              /\ \A i \in 1..Len(req[p].body) :
                   plaintextKey \notin req[p].body[i].atoms
  /\ \A a \in ApplicantIds :
       store[a].present =>
         \E k \in DataKeys :
           store[a].encrypted_data.encrypted_key = GenerateDataKey(k).encryptedKey

\* CreateApplicant has drawn a data key, logged the body and the assembled
\* applicant, stored the applicant with the encrypted key and answered.
PlaintextKeyConfinedWitness ==
  \E p \in Procs :
    /\ DoneOk(p, "CreateApplicant")
    /\ obs[p].wrote
    /\ store[req[p].a].encrypted_data.encrypted_key
         = GenerateDataKey("k1").encryptedKey
    /\ GenerateDataKey("k1").encryptedKey \in req[p].log
    /\ Raw(req[p].dob) \in req[p].log
    /\ req[p].body[1].code = 200

\* C14 (reads never auto-decrypt): what is stored of the sensitive fields, and
\* what GetApplicant, GetAllApplicants and UpdateApplicant return of them, is
\* sealed under a data key or is an encrypted key, never a value in the clear.
ReadsStayEncrypted ==
  /\ \A a \in ApplicantIds :
       \A x \in ApplicantAtoms(store[a]) : x[1] \in {"enc", "wrapped"}
  /\ \A p \in Procs :
       (req[p].pc = "done" /\
        req[p].op \in {"GetApplicant", "GetAllApplicants", "UpdateApplicant"}) =>
         \A i \in 1..Len(req[p].body) :
           \A x \in req[p].body[i].atoms : x[1] \in {"enc", "wrapped"}

\* C15 (encrypted fields immutable): no step changes the encrypted DOB, the
\* encrypted address or the encrypted data key of a stored applicant.
EncryptedFieldsImmutable ==
  [][\A a \in ApplicantIds :
       store[a].present =>
         store'[a].encrypted_data = store[a].encrypted_data]_vars

\* C18 (envelope round trip): when CreateApplicant has stored an applicant for
\* DOB v and address w, the stored DOB is not v in the clear, the key provider
\* opens the stored encrypted key to a key that opens the stored DOB to v and
\* the stored address to w, and both fields are sealed under that one key.
EnvelopeRoundTrip ==
  \A p \in Procs :
    (DoneOk(p, "CreateApplicant") /\ obs[p].wrote) =>
      LET e == store[req[p].a].encrypted_data
          plaintextKey == DecryptData(e.encrypted_key)
      IN /\ e.dob # Raw(req[p].dob)
         /\ e.dob[1] = "enc"
         /\ DecryptField(e.dob, plaintextKey) = Raw(req[p].dob)
         /\ DecryptField(e.address, plaintextKey) = Raw(req[p].address)
         /\ \A k \in DataKeys :
              (GenerateDataKey(k).plaintextKey # plaintextKey) =>
                /\ DecryptField(e.dob, GenerateDataKey(k).plaintextKey)
                     # Raw(req[p].dob)
                /\ DecryptField(e.address, GenerateDataKey(k).plaintextKey)
                     # Raw(req[p].address)

\* A second applicant was stored, for the other date of birth and under its
\* own data key.
EnvelopeRoundTripWitness ==
  \E p \in Procs :
    /\ DoneOk(p, "CreateApplicant")
    /\ obs[p].wrote
    /\ req[p].dob = "1985-05-05"
    /\ store[req[p].a].encrypted_data.dob # <<>>
    /\ \E a \in ApplicantIds \ {req[p].a} :
         /\ store[a].present
         /\ store[a].encrypted_data.encrypted_key
              # store[req[p].a].encrypted_data.encrypted_key

\* C16 (not-found distinguished from store failure): a request that ended
\* because the record does not exist is answered 404 and never 500, a request
\* that ended because the store failed is answered 500 and never 404, and a
\* GetDocument that returns without error returns a document that exists.
NotFoundDistinguished ==
  \A p \in Procs :
    (req[p].pc = "done" /\
     req[p].op \in {"GetApplicant", "GetDocument", "UpdateDocument"}) =>
      LET codes == {req[p].resp[i] : i \in 1..Len(req[p].resp)} IN
        /\ (req[p].err = "NotFound") => (404 \in codes /\ 500 \notin codes)
        /\ (req[p].err = "StoreError") => (500 \in codes /\ 404 \notin codes)
        /\ (req[p].err = "" /\ req[p].op = "GetDocument") =>
             req[p].res.document_id = req[p].d

\* C19 (CreateDocument reports the store outcome): the first answer of an
\* upload that reached CreateDocument is 500 {error: "Could not create
\* document"} when UpdateOne failed, and 200 {message: "Document created
\* successfully", document_id: the document's id} when it did not.
CreateDocumentReports ==
  \A p \in Procs :
    (req[p].pc = "done" /\ req[p].op = "UploadDocument" /\ obs[p].updates = 1) =>
      /\ Len(req[p].body) = 2
      /\ req[p].resp[1] = req[p].body[1].code
      /\ IF obs[p].storeFailed
         THEN /\ req[p].body[1] = Body(500, "", "Could not create document", "", {})
              /\ ~HasDoc(store[req[p].a].documents, req[p].d)
         ELSE /\ req[p].body[1] =
                   Body(200, "Document created successfully", "", req[p].d, {})
              /\ req[p].d = req[p].doc.document_id

\* An upload whose UpdateOne failed has been answered.
CreateDocumentReportsWitness ==
  \E p \in Procs :
    /\ req[p].pc = "done"
    /\ req[p].op = "UploadDocument"
    /\ obs[p].updates = 1
    /\ obs[p].storeFailed
    /\ req[p].resp = <<500, 200>>

\* What the upload route asks of a form: it parses, it has the file part,
\* the part's type is one of the three accepted ones, and the three form
\* values are not empty.
FormAccepted(form) ==
  /\ form.parses
  /\ form.file
  /\ form.mimeType \in {"application/pdf", "image/jpeg", "image/png"}
  /\ form.applicant_id # ""
  /\ form.document_type # ""
  /\ form.country # ""

\* C20 (validation precedes every side effect): an upload whose form is not
\* accepted is over at once with an error, without a call of UploadFile and
\* without a store update.
ValidationFirstState ==
  \A p \in Procs :
    (req[p].op = "UploadDocument" /\ ~FormAccepted(obs[p].form)) =>
      /\ req[p].pc = "done"
      /\ req[p].err # ""
      /\ req[p].resp = <<500>>
      /\ obs[p].uploads = 0
      /\ obs[p].updates = 0
      /\ ~obs[p].wrote

ValidationFirstStep ==
  \A p \in Procs :
    (req'[p].op = "UploadDocument" /\ ~FormAccepted(obs'[p].form)) =>
      store' = store

\* C20 (validation precedes every side effect), state and step part together.
ValidationFirst == []ValidationFirstState /\ [][ValidationFirstStep]_vars

\* A form with everything in place but the country has been turned down.
ValidationFirstWitness ==
  \E p \in Procs :
    /\ req[p].pc = "done"
    /\ req[p].op = "UploadDocument"
    /\ obs[p].form = [ValidForm("a1") EXCEPT !.country = ""]
    /\ req[p].err = "country is required"

\* The secrets of the table that an X-API-Key value stands for and that are
\* neither revoked nor deleted.
ActiveSecrets(apiKey) ==
  {s \in ClientSecrets :
     /\ apiKey # ""
     /\ s.client_secret_hash = HashAPIKey(apiKey)
     /\ ~s.revoked
     /\ s.deleted_at = "nil"}

\* C17 (authentication gate), state part: a handler has run only for a request
\* whose key stands for an active secret, with that secret's client id in the
\* context and in the handler's hands; a request whose key is missing,
\* unknown, revoked or deleted is over with 401 and no handler once the
\* middleware has seen it.
AuthGateState ==
  \A p \in Procs :
    /\ (req[p].op # "") =>
         /\ auth[p].st = "passed"
         /\ \E s \in ActiveSecrets(auth[p].key) :
              /\ auth[p].client_id = s.client_id
              /\ req[p].client \in {"", s.client_id}
              /\ req[p].applicant.client_id \in {"", "placeholder", s.client_id}
    /\ (auth[p].st # "none" /\ ActiveSecrets(auth[p].key) = {}) =>
         /\ auth[p].st = "aborted"
         /\ req[p].pc = "done"
         /\ req[p].op = ""
         /\ req[p].resp = <<401>>

\* C17, step part: no step of a request the middleware turned down, and no
\* step of a request the middleware has not passed on, changes the store or
\* the cache.
AuthGateStep ==
  \A p \in Procs :
    (auth'[p].st # "passed" /\ auth[p].st # "passed" /\
     <<req'[p], auth'[p]>> # <<req[p], auth[p]>>) =>
      (store' = store /\ cache' = cache)

\* C17 (authentication gate), state and step part together.
AuthGate == []AuthGateState /\ [][AuthGateStep]_vars

\* The second client's key has been passed on and its applicant stored, after
\* a revoked key was turned down.
AuthGateWitness ==
  \E p \in Procs :
    /\ auth[p].key = "key2"
    /\ DoneOk(p, "CreateApplicant")
    /\ obs[p].wrote
    /\ store[req[p].a].client_id = "c2"

\* C21 (creation timestamps coincide): an applicant that createApplicantObject
\* assembled and a document that createDocumentObject assembled carry a
\* created_at equal to their updated_at.
CreationTimestampsCoincide ==
  \A p \in Procs :
    /\ req[p].applicant.present =>
         req[p].applicant.created_at = req[p].applicant.updated_at
    /\ (req[p].doc.document_id # "") =>
         req[p].doc.created_at = req[p].doc.updated_at

\* C22 (initial record state), state part: a document UploadDocument assembled
\* has status Uploaded and is not deleted, with no deletion time and no
\* deleting user; an applicant CreateApplicant assembled is not deleted, with
\* no deletion time, no deleting user and no documents.
InitialRecordState ==
  \A p \in Procs :
    /\ (req[p].op = "UploadDocument" /\ req[p].doc.document_id # "") =>
         /\ req[p].doc.status = DocumentUploaded
         /\ req[p].doc.deleted = FALSE
         /\ req[p].doc.deleted_at = "nil"
         /\ req[p].doc.deleted_by = "nil"
    /\ (req[p].op = "CreateApplicant" /\ req[p].applicant.present) =>
         /\ req[p].applicant.deleted = FALSE
         /\ req[p].applicant.deleted_at = "nil"
         /\ req[p].applicant.deleted_by = "nil"
         /\ req[p].applicant.documents = <<>>

\* C22, step part: the step that assembles the record writes nothing to the
\* store.
InitialRecordStep ==
  \A p \in Procs :
    (req[p].pc = "idle" /\ req'[p].op \in {"UploadDocument", "CreateApplicant"}) =>
      store' = store

\* C22 (initial record state), state and step part together.
InitialRecord == []InitialRecordState /\ [][InitialRecordStep]_vars

\* A document has been assembled for an applicant that holds one already, and
\* waits for the mutex.
InitialRecordWitness ==
  \E p \in Procs :
    /\ req[p].op = "UploadDocument"
    /\ req[p].pc = "mu_lock"
    /\ req[p].doc.document_id # ""
    /\ Len(store[req[p].a].documents) = 1

\* C23 (closed document-type enumeration): an upload whose document_type is
\* not one of the document types is over with an error, without a call of
\* UploadFile and without a store update, and every stored document has one
\* of the document types.
ClosedDocumentType ==
  /\ \A p \in Procs :
       (req[p].op = "UploadDocument" /\
        obs[p].form.document_type \notin DocumentTypes) =>
         /\ req[p].pc = "done"
         /\ req[p].err # ""
         /\ obs[p].uploads = 0
         /\ obs[p].updates = 0
  /\ \A a \in ApplicantIds :
       \A i \in 1..Len(store[a].documents) :
         store[a].documents[i].document_type \in DocumentTypes

\* A document with the fields a status update may change blanked.
DocumentFrame(doc) == [doc EXCEPT !.status = "", !.updated_at = 0, !.rev = 0]

\* An applicant with its documents blanked.
ApplicantFrame(rec) == [rec EXCEPT !.documents = <<>>]

\* C24 (scoped status update): the store write of UpdateDocument(applicantID,
\* docID, status) leaves every other applicant, the applicant's own fields and
\* the number of its documents unchanged; a document that changed has
\* document_id docID, sits in an applicant that is not deleted, and differs
\* from what it was in its status and updated_at only; at most one document
\* changes.
ScopedStatusUpdateStep ==
  \A p \in Procs :
    (req[p].pc = "inv_write" /\ req[p].op = "UpdateDocument" /\
     req'[p].pc # "inv_write") =>
      /\ \A a \in ApplicantIds \ {req[p].a} : store'[a] = store[a]
      /\ req[p].a \in ApplicantIds =>
           LET before == store[req[p].a]
               after == store'[req[p].a]
               changed == {i \in 1..Len(before.documents) :
                             after.documents[i] # before.documents[i]}
           IN /\ ApplicantFrame(after) = ApplicantFrame(before)
              /\ Len(after.documents) = Len(before.documents)
              /\ Cardinality(changed) <= 1
              /\ \A i \in changed :
                   /\ before.documents[i].document_id = req[p].d
                   /\ ~before.deleted
                   /\ DocumentFrame(after.documents[i]) =
                        DocumentFrame(before.documents[i])
                   /\ after.documents[i].status = req[p].status
                   /\ after.documents[i].updated_at = req[p].ts

ScopedStatusUpdate == [][ScopedStatusUpdateStep]_vars

\* UpdateDocument has written the status of one of two documents of an
\* applicant, and the other document keeps the status it was uploaded with.
ScopedStatusUpdateWitness ==
  \E p \in Procs :
    /\ req[p].op = "UpdateDocument"
    /\ req[p].pc = "inv_drop"
    /\ obs[p].wrote
    /\ req[p].a \in ApplicantIds
    /\ Len(store[req[p].a].documents) = 2
    /\ \E i, j \in 1..2 :
         /\ store[req[p].a].documents[i].document_id = req[p].d
         /\ store[req[p].a].documents[i].status = req[p].status
         /\ store[req[p].a].documents[j].document_id # req[p].d
         /\ store[req[p].a].documents[j].status # req[p].status

\* C25 (tenant isolation): an applicant a request of an authenticated client
\* wrote to, or a request that ended without error read from or wrote to, has
\* the client_id of that client; no stored applicant has the placeholder as
\* its client_id.
TenantIsolation ==
  /\ \A p \in Procs :
       (/\ auth[p].st = "passed"
        /\ req[p].a \in ApplicantIds
        /\ store[req[p].a].present
        /\ \/ obs[p].wrote
           \/ /\ req[p].pc = "done"
              /\ req[p].err = ""
              /\ req[p].op \in {"CreateApplicant", "UpdateApplicant",
                                "UploadDocument", "GetDocument",
                                "UpdateDocument", "DownloadDocument"}) =>
         store[req[p].a].client_id = auth[p].client_id
  /\ \A a \in ApplicantIds :
       store[a].present => store[a].client_id \in Clients

\* C26 (upload success implies persistence): when UploadDocument has returned
\* without error, the document it returned, carrying the URL the uploader
\* gave, is one of the documents of the applicant, and the applicant is not
\* deleted.
UploadSuccessPersisted ==
  \A p \in Procs :
    (req[p].op = "UploadDocument" /\ req[p].pc = "done" /\ req[p].err = "") =>
      /\ req[p].a \in ApplicantIds
      /\ store[req[p].a].present
      /\ ~store[req[p].a].deleted
      /\ \E i \in 1..Len(store[req[p].a].documents) :
           /\ store[req[p].a].documents[i].document_id = req[p].d
           /\ store[req[p].a].documents[i].file_url = UploadedFileURL

\* C27 (document mutex always released): at most one task is inside the
\* section guarded by mu, and mu is locked only while the task that locked it
\* is inside the section.
MutexReleased ==
  /\ Cardinality({p \in Procs : req[p].pc = "mu_held"}) <= 1
  /\ (mu # "") => req[mu].pc = "mu_held"

\* C28 (soft-deleted records invisible): a request on an applicant that has
\* deleted = true, other than the request that set the flag, ends with an
\* error when it is a read (GetApplicant, GetDocument, DownloadDocument), has
\* written nothing when it is a write (UpdateApplicant, UpdateDocument,
\* UploadDocument), and GetAllApplicants lists no deleted applicant.
SoftDeletedInvisible ==
  \A p \in Procs :
    /\ (/\ req[p].pc = "done"
        /\ req[p].a \in ApplicantIds
        /\ store[req[p].a].present
        /\ store[req[p].a].deleted
        /\ ~UpdateHas(req[p].upd, "deleted")) =>
         /\ req[p].op \in {"GetApplicant", "GetDocument", "DownloadDocument"} =>
              req[p].err # ""
         /\ req[p].op \in {"UpdateApplicant", "UpdateDocument",
                           "UploadDocument"} => ~obs[p].wrote
    /\ \A x \in req[p].list : ~x.deleted

\* C29 (exactly one response per request): a request that is over has written
\* exactly one response.
ExactlyOneResponse ==
  \A p \in Procs : (req[p].pc = "done") => Len(req[p].resp) = 1

\* C30 (errors imply no mutation for updates): an UpdateApplicant or
\* UpdateDocument that returned an error to its caller has written nothing to
\* the store.
ErrorsImplyNoMutation ==
  \A p \in Procs :
    (/\ req[p].pc = "done"
     /\ req[p].op \in {"UpdateApplicant", "UpdateDocument"}
     /\ req[p].err # "") => ~obs[p].wrote

====
